---- MODULE Spec2Model ----
(***************************************************************************)
(* Verification model of the personalization API request engine:           *)
(*   - layer/personalization_config.py  (configuration cache, inheritance) *)
(*   - personalization_api_function/background_tasks.py (task group)       *)
(*   - personalization_api_function/main.py (handlers, ETag, cache headers)*)
(***************************************************************************)
EXTENDS Integers, Sequences, FiniteSets, TLC

VARIABLES
    config,     \* AppConfigPersonalizationConfig.config (cached document)
    ttl,        \* AppConfigPersonalizationConfig.ttl (seconds)
    now,        \* wall clock (seconds)
    sidecar,    \* the document the configuration sidecar currently serves
    fetched,    \* history: the document as the sidecar last delivered it
    ret,        \* history: the outcome of the last configuration operation
    pc,         \* position of the request handler
    req,        \* the request being handled
    background, \* the handler's BackgroundTasks: pool and futures
    exc,        \* the exception travelling out of the handler body
    response,   \* the response of the last request
    decorators, \* ResponseDecorator._decorators
    lastPrepareCheck,   \* ResponseDecorator._last_prepare_check
    lastDownload,       \* ResponseDecorator._last_localdb_download_attempt
    did,        \* history: what the current request has done so far
    evaluation, \* the handler's variation, experiment = evaluate_variations(...)
    etag,       \* the last ETag generated, with the inputs it was made from
    verdict,    \* the last answer of is_resource_not_modified
    headers,    \* the response headers set by set_cache_headers
    inference,  \* the last run of a handler from its variation to its response
    decoration, \* the last call of a decorator's decorate(response)
    fanout,     \* post_put_events: the event targets and their put_events calls
    autoValues,\* the last call of get_season or resolve_auto_values
    localdb \* a namespace's local file, its decorators and the threads using them

cfgVars == <<config, ttl, now, sidecar, fetched, ret>>

hVars == <<pc, req, background, exc, response, decorators, lastPrepareCheck,
           lastDownload, did, evaluation>>

qVars == <<inference, decoration, fanout,
          autoValues,
          localdb>>

pVars == <<etag, verdict, headers, inference, decoration, fanout,
          autoValues,
          localdb>>

vars == <<config, ttl, now, sidecar, fetched, ret, pc, req, background, exc,
          response, decorators, lastPrepareCheck, lastDownload, did, evaluation,
          etag, verdict, headers, inference, decoration, fanout,
          autoValues,
          localdb>>

-----------------------------------------------------------------------------
(* Bounds of the model *)

MaxNow == 4             \* the clock of the cache specification stops here
MaxExpiries == 1        \* the lookup specification lets the cache expire this often
MaxFetchDelay == 1      \* seconds a sidecar fetch may take
MaxVariations == 2      \* positions an evaluator may name
MaxEtagAge == 2         \* ETags are generated with maxAge 1..MaxEtagAge
MaxEtagMs == 3          \* ETags are generated in the first MaxEtagMs milliseconds
TicksPerMs == 4         \* resolution of the millisecond clock
Epoch == 1000           \* time.time() when the model's clock reads 0
SyncInterval == 7       \* syncInterval of the localdb metadata of the model
EtagSeconds == 4        \* max age of the ETag that requests send back
TickSeconds == 3        \* the handlers' clock advances in steps of TickSeconds
MaxClock == 9           \* the handlers run while now <= MaxClock
MaxHeaderAge == 2       \* cacheControl tiers carry maxAge 0..MaxHeaderAge
MaxAgeBound == 2        \* get_config(max_age) is called with 0..MaxAgeBound

(* Program constants *)

DefaultMaxAge == 10     \* get_config(self, max_age: int = 10)

-----------------------------------------------------------------------------
(* Configuration documents.  A dict node is a record; an absent key (or a  *)
(* JSON null, which dict.get(...) is None cannot tell apart) is None.       *)

None == "None"

Inherited == <<"autoContext", "filters", "cacheControl", "inferenceItemMetadata">>

Keys == {Inherited[i] : i \in 1..Len(Inherited)}

NoKeys == [K \in Keys |-> None]

MkKeys(S, tag) == [K \in Keys |-> IF K \in S THEN tag ELSE None]

ACTION_RECOMMEND_ITEMS == "recommend-items"

ACTION_RELATED_ITEMS == "related-items"

ACTION_RERANK_ITEMS == "rerank-items"

Actions == {ACTION_RECOMMEND_ITEMS, ACTION_RELATED_ITEMS, ACTION_RERANK_ITEMS}

NoAction == "None"

NsNames == {"ns1", "ns2"}

RecNames == {"rec1", "rec3"}

\* self.config = None
NoneDoc == [kind |-> "None", hasNs |-> FALSE, k |-> NoKeys, namespaces |-> <<>>]

\* json.loads(resp) if resp else {}
EmptyDoc == [kind |-> "dict", hasNs |-> FALSE, k |-> NoKeys, namespaces |-> <<>>]

\* {"namespaces": {}}
NoNamespacesDoc == [kind |-> "dict", hasNs |-> TRUE, k |-> NoKeys, namespaces |-> <<>>]

Variation(name, S, tag) == [name |-> name, k |-> MkKeys(S, tag)]

\* rec_config.get('experiments'): no experiment, or the first (feature,
\* experiment) item of the dict; a metric is its name and its trackExposures
NoExperiments == [feature |-> None, method |-> None, metrics |-> <<>>]

Metric(name, trackExposures) == [name |-> name, trackExposures |-> trackExposures]

Recommender(S, tag, variations) ==
    [k |-> MkKeys(S, tag), variations |-> variations, experiments |-> NoExperiments]

\* One namespace "ns1"; "rec1" exists under two actions with independent
\* configurations, the rerank bucket is empty; r, n, c, v are the keys set by
\* the root, the namespace, recommend-items/rec1 and its first variation.
TreeDoc(r, n, c, v) ==
    [kind |-> "dict", hasNs |-> TRUE, k |-> MkKeys(r, "R"),
     namespaces |-> [x \in {"ns1"} |->
        [k |-> MkKeys(n, "N"),
         recommenders |-> <<
            [action |-> ACTION_RECOMMEND_ITEMS,
             recs |-> [y \in {"rec1"} |->
                Recommender(c, "C", <<Variation("v1", v, "V"),
                                      Variation("v2", {"filters"}, "V2")>>)]],
            [action |-> ACTION_RELATED_ITEMS,
             recs |-> [y \in {"rec1"} |->
                Recommender({"autoContext"}, "C2", <<Variation("v1", {}, "V")>>)]],
            [action |-> ACTION_RERANK_ITEMS, recs |-> <<>>]
         >>]]]

KeySets == {{}, {"cacheControl"}, Keys}

AllOrNone == {{}, Keys}

TreeDocs ==
    {TreeDoc(r, n, c, v) : r \in AllOrNone, n \in KeySets, c \in AllOrNone, v \in AllOrNone}
        \cup {EmptyDoc, NoNamespacesDoc}

SmallDocs == {EmptyDoc, NoNamespacesDoc, TreeDoc({"cacheControl"}, {}, {}, {})}

\* Python truthiness of the root dict: None and {} are falsy
Truthy(d) == d.kind = "dict" /\ (d.hasNs \/ \E K \in Keys : d.k[K] # None)

-----------------------------------------------------------------------------
(* PersonalizationConfig.inherit_config: for each inherited key, the child  *)
(* takes a copy of the parent's value when it has none of its own.          *)

inherit_config_overwrite(parent, child) ==
    [K \in Keys |-> IF parent[K] # None THEN parent[K] ELSE child[K]]

inherit_config(parent, child) ==
    [K \in Keys |-> IF child[K] = None /\ parent[K] # None THEN parent[K] ELSE child[K]]

-----------------------------------------------------------------------------
(* AppConfigPersonalizationConfig.get_config / _get_from_app_config.        *)
(* The outcomes of one call from cache state (c, t) at time n.  A fetch     *)
(* takes e seconds and ends in one of three ways:                           *)
(*   - urlopen(url).read() raises: nothing was assigned yet;                *)
(*   - the body is not JSON: self.ttl was assigned, json.loads raises       *)
(*     before self.config is;                                               *)
(*   - the sidecar delivers a document d of D: ttl and config are assigned. *)

Outcome(c, t, n, val, err, contacted, fresh) ==
    [config |-> c, ttl |-> t, now |-> n, val |-> val, err |-> err,
     contacted |-> contacted, fresh |-> fresh]

\* a fetch that takes time ends within the horizon of the clock
Delays(n, E) == {e \in E : e = 0 \/ n + e <= MaxNow}

FetchTtl_before(n, e, max_age) == n + max_age

FetchTtl(n, e, max_age) == n + e + max_age

get_from_app_config_ttl_first(c, t, n, max_age, D, E) ==
    {Outcome(c, FetchTtl(n, 0, max_age), n + e, NoneDoc, "URLError", TRUE, FALSE) :
        e \in Delays(n, E)}
    \cup
    {Outcome(d, FetchTtl(n, e, max_age), n + e, d, None, TRUE, TRUE) :
        d \in D, e \in Delays(n, E)}

get_from_app_config(c, t, n, max_age, D, E) ==
    {Outcome(c, t, n + e, NoneDoc, "URLError", TRUE, FALSE) : e \in Delays(n, E)}
    \cup
    {Outcome(c, FetchTtl(n, e, max_age), n + e, NoneDoc, "JSONDecodeError", TRUE, FALSE) :
        e \in Delays(n, E)}
    \cup
    {Outcome(d, FetchTtl(n, e, max_age), n + e, d, None, TRUE, TRUE) :
        d \in D, e \in Delays(n, E)}

\* if self.config and self.ttl > datetime.now()
CacheHit(c, t, n) == Truthy(c) /\ t > n

get_config(c, t, n, max_age, D, E) ==
    IF CacheHit(c, t, n)
    THEN {Outcome(c, t, n, c, None, FALSE, FALSE)}
    ELSE get_from_app_config(c, t, n, max_age, D, E)

-----------------------------------------------------------------------------
(* PersonalizationConfig.get_namespace_config on root document doc.  The    *)
(* node returned is the stored node itself: inherit_config writes into it.  *)

NoId == [ns |-> None, action |-> None, rec |-> None, var |-> None]

NoView == [doc |-> NoneDoc, kind |-> "none", k |-> NoKeys, id |-> NoId]

get_namespace_config(doc, ns) ==
    IF Truthy(doc) /\ doc.hasNs /\ ns \in DOMAIN doc.namespaces
    THEN LET k2 == inherit_config(doc.k, doc.namespaces[ns].k)
         IN  [doc |-> [doc EXCEPT !.namespaces[ns].k = k2], kind |-> "value",
              k |-> k2, id |-> [NoId EXCEPT !.ns = ns]]
    ELSE [NoView EXCEPT !.doc = doc]

\* indexes of the action buckets (dict insertion order) that hold rec
BucketsWith(recommenders, rec) ==
    {b \in 1..Len(recommenders) : rec \in DOMAIN recommenders[b].recs}

BucketOf(recommenders, action) ==
    {b \in 1..Len(recommenders) : recommenders[b].action = action}

(* PersonalizationConfig.get_recommender_config.  With an action: the       *)
(* bucket of that action only; an empty bucket is returned as it is ({}).   *)
(* Without an action: the first bucket holding the name is subscripted as   *)
(* action_config.get[recommender_path], which raises TypeError.             *)
get_recommender_config(doc, ns, rec, action) ==
    LET n == get_namespace_config(doc, ns)
        recommenders == n.doc.namespaces[ns].recommenders
    IN  IF n.kind # "value" \/ Len(recommenders) = 0
        THEN [NoView EXCEPT !.doc = n.doc]
        ELSE IF action # NoAction
        THEN IF BucketOf(recommenders, action) = {}
             THEN [NoView EXCEPT !.doc = n.doc]
             ELSE LET b == CHOOSE x \in BucketOf(recommenders, action) : TRUE
                  IN  IF DOMAIN recommenders[b].recs = {}
                      THEN [NoView EXCEPT !.doc = n.doc, !.kind = "empty"]
                      ELSE IF rec \notin DOMAIN recommenders[b].recs
                      THEN [NoView EXCEPT !.doc = n.doc]
                      ELSE LET k2 == inherit_config(n.k, recommenders[b].recs[rec].k)
                           IN  [doc |-> [n.doc EXCEPT
                                    !.namespaces[ns].recommenders[b].recs[rec].k = k2],
                                kind |-> "value", k |-> k2,
                                id |-> [NoId EXCEPT !.ns = ns, !.action = action,
                                                    !.rec = rec]]
        ELSE IF BucketsWith(recommenders, rec) = {}
             THEN [NoView EXCEPT !.doc = n.doc]
             ELSE [NoView EXCEPT !.doc = n.doc, !.kind = "TypeError"]

(* evaluate_variations, as far as the configuration goes: a recommender     *)
(* without variations is a 404; the variation at position i of the          *)
(* recommender (the first one, or the evaluator's choice) is returned through*)
(* config.inherit_config(rec_config, variation).                            *)
select_variation(doc, ns, rec, action, i) ==
    LET r == get_recommender_config(doc, ns, rec, action)
    IN  IF r.kind # "value"
        THEN [r EXCEPT !.kind = IF r.kind \in {"none", "empty"}
                                THEN "RecommenderNotConfigured" ELSE r.kind]
        ELSE LET b == CHOOSE x \in BucketOf(r.doc.namespaces[ns].recommenders, action) : TRUE
                 variations == r.doc.namespaces[ns].recommenders[b].recs[rec].variations
             IN  IF Len(variations) = 0
                 THEN [r EXCEPT !.kind = "NoVariationsConfigured"]
                 ELSE IF i \notin 1..Len(variations)
                 THEN [r EXCEPT !.kind = "NoMatchedTarget"]
                 ELSE LET k3 == inherit_config(r.k, variations[i].k)
                      IN  [doc |-> [r.doc EXCEPT
                               !.namespaces[ns].recommenders[b].recs[rec].variations[i].k = k3],
                           kind |-> "value", k |-> k3,
                           id |-> [r.id EXCEPT !.var = variations[i].name]]

-----------------------------------------------------------------------------
(* The configuration provider as a state machine.  D is the set of          *)
(* documents the sidecar may deliver, E the seconds a fetch may take.       *)

NoPre == [config |-> NoneDoc, ttl |-> 0, now |-> 0]

NoRet == [op |-> None, ns |-> None, rec |-> None, action |-> None, var |-> 0,
          kind |-> None, k |-> NoKeys, id |-> NoId, contacted |-> FALSE,
          fresh |-> FALSE, max_age |-> 0, pre |-> NoPre, at |-> 0]

NoBackground == [pool |-> FALSE, futures |-> <<>>]

NoRequest == [endpoint |-> None, ns |-> None, rec |-> None, user_id |-> None,
              header |-> <<>>, body |-> None]

NoResponse == [status |-> 0, code |-> None, matchedExperiment |-> None,
               cacheControl |-> None]

\* an answer of evidently.evaluate_feature: response['value'] holds a
\* stringValue (a string of character codes), a longValue, or neither
NoAnswer == [kind |-> None, str |-> <<>>, long |-> 0, reason |-> None]

NoEvaluation == [answer |-> NoAnswer, var |-> None, k |-> NoKeys, experiment |-> None,
                 evaluator |-> FALSE, submitted |-> FALSE, events |-> <<>>]

NothingDone == [opened |-> FALSE, prepared |-> FALSE, evaluated |-> FALSE,
                resolved |-> FALSE, registered |-> FALSE]

HandlerState(at) ==
    /\ pc = at
    /\ req = NoRequest
    /\ background = NoBackground
    /\ exc = None
    /\ response = NoResponse
    /\ decorators = [n \in NsNames |-> None]
    /\ lastPrepareCheck = 0
    /\ lastDownload = [n \in NsNames |-> 0]
    /\ did = NothingDone
    /\ evaluation = NoEvaluation

NoEtag == [path |-> <<>>, query |-> <<>>, max_age |-> 0, t |-> 0, value |-> <<>>]

NoVerdict == [at |-> 0, header |-> <<>>, result |-> None]

NoHeaders == [applied |-> FALSE, tier |-> None, max_age |-> 0,
              directives |-> [set |-> FALSE, text |-> <<>>],
              ETag |-> <<>>, CacheControl |-> [set |-> FALSE, text |-> <<>>]]

HandlerIdle == HandlerState("idle")

\* no handler has run from a variation to a response yet
NoInference == [called |-> FALSE]

\* no decorator has been called yet
NoDecoration == [called |-> FALSE]

\* no POST /events request has arrived yet
NoFanout == [pc |-> "idle"]

\* neither get_season nor resolve_auto_values has been called yet
NoAutoValues == [op |-> None]

\* /tmp/<namespace>/<file> does not exist, no decorator is registered for the
\* namespace, no request is being handled and no download task runs
NoLocalDb ==
    [file |-> [exists |-> FALSE, version |-> 0, complete |-> FALSE],
     instances |-> <<>>, registry |-> 0,
     download |-> [pc |-> "idle", old_decorator |-> 0], downloads |-> 0,
     handler |-> [pc |-> "idle", decorator |-> 0, left |-> 0], reads |-> <<>>]

PureIdle ==
    /\ etag = NoEtag
    /\ verdict = NoVerdict
    /\ headers = NoHeaders
    /\ inference = NoInference
    /\ decoration = NoDecoration
    /\ fanout = NoFanout
    /\ autoValues = NoAutoValues
    /\ localdb = NoLocalDb

CfgInit(D) ==
    /\ HandlerIdle
    /\ PureIdle
    /\ sidecar \in D
    /\ config = NoneDoc
    /\ ttl = 0
    /\ now = 0
    /\ fetched = NoneDoc
    /\ ret = NoRet

\* config.get_config(max_age)
GetConfigCall(E) ==
    \E m \in 0..MaxAgeBound : \E o \in get_config(config, ttl, now, m, {sidecar}, E) :
        /\ UNCHANGED hVars
        /\ UNCHANGED pVars
        /\ sidecar' = sidecar
        /\ config' = o.config
        /\ ttl' = o.ttl
        /\ now' = o.now
        /\ fetched' = IF o.fresh THEN o.config ELSE fetched
        /\ ret' = [NoRet EXCEPT !.op = "get_config", !.max_age = m,
                       !.kind = IF o.err # None THEN o.err ELSE "value",
                       !.contacted = o.contacted, !.fresh = o.fresh,
                       !.pre = [config |-> config, ttl |-> ttl, now |-> now],
                       !.at = o.now]

\* the effect of a lookup whose get_config had outcome o and whose own
\* outcome on the document o.val is v
LookupEffect(o, v, r) ==
    /\ UNCHANGED hVars
    /\ UNCHANGED pVars
    /\ sidecar' = sidecar
    /\ ttl' = o.ttl
    /\ now' = o.now
    /\ IF o.err # None
       THEN /\ config' = o.config
            /\ fetched' = fetched
            /\ ret' = [r EXCEPT !.kind = o.err, !.contacted = TRUE]
       ELSE /\ config' = v.doc
            /\ fetched' = IF o.fresh THEN o.config ELSE fetched
            /\ ret' = [r EXCEPT !.kind = v.kind, !.k = v.k, !.id = v.id,
                                !.contacted = o.contacted, !.fresh = o.fresh]

\* config.get_namespace_config(ns)
NamespaceLookup(E) ==
    \E ns \in NsNames : \E o \in get_config(config, ttl, now, DefaultMaxAge, {sidecar}, E) :
        LookupEffect(o, get_namespace_config(o.val, ns),
                     [NoRet EXCEPT !.op = "get_namespace_config", !.ns = ns])

\* config.get_recommender_config(ns, rec, action) and (ns, rec)
RecommenderLookup(E) ==
    \E ns \in NsNames, rec \in RecNames, action \in Actions \cup {NoAction} :
      \E o \in get_config(config, ttl, now, DefaultMaxAge, {sidecar}, E) :
        /\ ns \in DOMAIN sidecar.namespaces \/ (rec = "rec1" /\ action = ACTION_RECOMMEND_ITEMS)
        /\ rec = "rec1" \/ action \in {ACTION_RECOMMEND_ITEMS, NoAction}
        /\ LookupEffect(o, get_recommender_config(o.val, ns, rec, action),
                     [NoRet EXCEPT !.op = "get_recommender_config", !.ns = ns,
                                   !.rec = rec, !.action = action])

\* a handler's get_recommender_config(ns, rec, ACTION) followed by
\* evaluate_variations returning the variation at position i
VariationSelect(E) ==
    \E ns \in NsNames, rec \in RecNames, action \in Actions, i \in 1..MaxVariations :
      \E o \in get_config(config, ttl, now, DefaultMaxAge, {sidecar}, E) :
        /\ ns \in DOMAIN sidecar.namespaces /\ rec = "rec1"
        /\ LookupEffect(o, select_variation(o.val, ns, rec, action, i),
                     [NoRet EXCEPT !.op = "evaluate_variations", !.ns = ns,
                                   !.rec = rec, !.action = action, !.var = i])

Tick(d, limit) ==
    /\ now + d <= limit
    /\ now' = now + d
    /\ UNCHANGED <<config, ttl, sidecar, fetched, ret>>
    /\ UNCHANGED hVars
    /\ UNCHANGED pVars

\* a new configuration version is deployed to the sidecar
Deploy(D) ==
    /\ sidecar' \in D \ {sidecar}
    /\ UNCHANGED <<config, ttl, now, fetched, ret>>
    /\ UNCHANGED hVars
    /\ UNCHANGED pVars

\* the cache alone: get_config calls against a ticking clock
CacheNext ==
    \/ GetConfigCall(0..MaxFetchDelay)
    \/ Deploy(SmallDocs)
    \/ Tick(1, MaxNow)

SpecCache == CfgInit(SmallDocs) /\ [][CacheNext]_vars

\* the lookups on the cached tree; the clock jumps past the default max age
LookupNext ==
    \/ NamespaceLookup({0})
    \/ RecommenderLookup({0})
    \/ VariationSelect({0})
    \/ Tick(DefaultMaxAge, MaxExpiries * DefaultMaxAge)

SpecLookup == CfgInit(TreeDocs) /\ [][LookupNext]_vars

-----------------------------------------------------------------------------
(* ETag and conditional GET (main.py).  Time is counted in ticks, TicksPerMs*)
(* ticks to the millisecond, so that time.time() * 1000 has a fraction.  A  *)
(* header value is the sequence of its segments between hyphens: a natural  *)
(* number for a segment int() accepts, NotInt for any other segment.        *)

NotInt == -1

\* zlib.adler32 of a byte string
RECURSIVE AdlerSums(_, _, _)
AdlerSums(bytes, a, b) ==
    IF bytes = <<>> THEN <<a, b>>
    ELSE LET a2 == (a + Head(bytes)) % 65521
         IN  AdlerSums(Tail(bytes), a2, (b + a2) % 65521)

adler32(bytes) == LET ab == AdlerSums(bytes, 1, 0) IN ab[2] * 65536 + ab[1]

\* round(x) of x = t / TicksPerMs: to the nearest integer, ties to even
round(t) ==
    LET q == t \div TicksPerMs
        r == t % TicksPerMs
    IN  IF 2 * r < TicksPerMs THEN q
        ELSE IF 2 * r > TicksPerMs THEN q + 1
        ELSE IF q % 2 = 0 THEN q ELSE q + 1

\* the segments of str(n) split at '-': the sign of a negative number is a
\* separator with an empty segment before it
Segments(n) == IF n < 0 THEN <<NotInt, -n>> ELSE <<n>>

\* f'{checksum}-{millis}-{max_age}' at time t
generate_etag(path, query, max_age, t) ==
    Segments(adler32(path \o <<63>> \o query)) \o Segments(round(t)) \o Segments(max_age)

is_resource_not_modified_no_millis(header, t) ==
    IF header = <<>> \/ Len(header) < 2 THEN "False"
    ELSE IF header[Len(header) - 1] = NotInt \/ header[Len(header)] = NotInt
    THEN "ValueError"
    ELSE IF (header[Len(header) - 1] + header[Len(header)]) * TicksPerMs > t
    THEN "True" ELSE "False"

\* is_resource_not_modified at time t for the If-None-Match value header
\* (<<>>: the header is absent or empty)
is_resource_not_modified(header, t) ==
    IF header = <<>> \/ Len(header) < 2 THEN "False"
    ELSE IF header[Len(header) - 1] = NotInt \/ header[Len(header)] = NotInt
    THEN "ValueError"
    ELSE IF (header[Len(header) - 1] + header[Len(header)] * 1000) * TicksPerMs > t
    THEN "True" ELSE "False"

\* "/a", "/b" and "", "x"
Paths == {<<47, 97>>, <<47, 98>>}

Queries == {<<>>, <<120>>}

\* ticks in max_age seconds
Window(max_age) == max_age * 1000 * TicksPerMs

\* a handler generates the ETag of its response at time t
GenerateEtag ==
    /\ \E path \in Paths, query \in Queries, max_age \in 1..MaxEtagAge,
          t \in 0..(MaxEtagMs * TicksPerMs) :
          etag' = [path |-> path, query |-> query, max_age |-> max_age, t |-> t,
                   value |-> generate_etag(path, query, max_age, t)]
    /\ verdict' = NoVerdict
    /\ UNCHANGED <<headers>>
    /\ UNCHANGED qVars
    /\ UNCHANGED cfgVars
    /\ UNCHANGED hVars

\* the client sends the ETag back as If-None-Match at a time t2 around the
\* end of the max_age window, or at once
CheckEtag ==
    /\ etag # NoEtag
    /\ \E d \in (0 - 2 * TicksPerMs)..(2 * TicksPerMs) :
          \E t2 \in {etag.t, etag.t + Window(etag.max_age) + d} :
              verdict' = [at |-> t2, header |-> etag.value,
                          result |-> is_resource_not_modified(etag.value, t2)]
    /\ UNCHANGED <<etag, headers>>
    /\ UNCHANGED qVars
    /\ UNCHANGED cfgVars
    /\ UNCHANGED hVars

EtagInit ==
    /\ CfgInit({NoNamespacesDoc})

EtagNext == GenerateEtag \/ CheckEtag

SpecEtag == EtagInit /\ [][EtagNext]_vars

\* C9 (as claimed): the ETag generated at t with maxAge, sent back at t2, is
\* answered not-modified when t2 is less than maxAge seconds after t and is
\* not when t2 is later than that.
C9_EtagRoundTrip ==
    verdict.result # None =>
        /\ verdict.at < etag.t + Window(etag.max_age) => verdict.result = "True"
        /\ verdict.at > etag.t + Window(etag.max_age) => verdict.result = "False"

\* C9 (amended): it is answered not-modified when t2 is more than half a
\* millisecond short of maxAge seconds after t, and is not when t2 is half a
\* millisecond or more past it (the ETag carries t rounded to a millisecond).
C9_EtagRoundTripRounded ==
    verdict.result # None =>
        /\ 2 * (etag.t + Window(etag.max_age) - verdict.at) > TicksPerMs
                => verdict.result = "True"
        /\ 2 * (verdict.at - (etag.t + Window(etag.max_age))) >= TicksPerMs
                => verdict.result = "False"

\* C9 witness: an ETag stamped in the middle of a millisecond was sent back
\* one millisecond before its window ended and answered not-modified
C9_Witness ==
    /\ verdict.result = "True"
    /\ etag.t % TicksPerMs # 0
    /\ verdict.at = etag.t + Window(etag.max_age) - TicksPerMs

-----------------------------------------------------------------------------
(* set_cache_headers (main.py).  A directives string is the sequence of its *)
(* tokens; set is FALSE for an absent key.  A tier is the dict under        *)
(* cacheControl[control_type]; maxAge 0 with hasMaxAge is a configured 0.   *)

NoText == [set |-> FALSE, text |-> <<>>]

Text(tokens) == [set |-> TRUE, text |-> tokens]

NoTier == [set |-> FALSE, hasMaxAge |-> FALSE, maxAge |-> 0, directives |-> NoText]

Tier(hasMaxAge, maxAge, directives) ==
    [set |-> TRUE, hasMaxAge |-> hasMaxAge, maxAge |-> maxAge, directives |-> directives]

TierNames == {"userSpecified", "syntheticUserSpecified", "noUserSpecified"}

DirectiveTexts ==
    {NoText, Text(<<>>), Text(<<"private">>),
     Text(<<"public", ",", "max-age=", "60">>), Text(<<"max-age=", "60">>)}

Tiers ==
    {NoTier} \cup {Tier(FALSE, 0, d) : d \in DirectiveTexts}
             \cup {Tier(TRUE, m, d) : m \in 0..MaxHeaderAge, d \in DirectiveTexts}

\* Python truthiness of a str / of the tier dict (a dict with no key is falsy)
TextTruthy(d) == d.set /\ d.text # <<>>

TierTruthy(tier) == tier.set /\ (tier.hasMaxAge \/ tier.directives.set)

\* 'max-age=' in directives
ContainsMaxAge(d) == \E i \in 1..Len(d.text) : d.text[i] = "max-age="

control_type(user_id, user_is_synthetic) ==
    IF user_id # None
    THEN (IF user_is_synthetic THEN "syntheticUserSpecified" ELSE "userSpecified")
    ELSE "noUserSpecified"

\* lines 125-128: the Cache-Control value when max_age is truthy
CacheControlFor(max_age, directives) ==
    IF ~TextTruthy(directives)
    THEN Text(<<"max-age=", ToString(max_age)>>)
    ELSE IF ~ContainsMaxAge(directives)
    THEN Text(directives.text \o <<",", "max-age=", ToString(max_age)>>)
    ELSE NoText

\* set_cache_headers(config, headers, user_id, user_is_synthetic) on empty
\* headers, for a request to path?query at time t; cacheControl is
\* config.get('cacheControl'), a map of tiers or NoCacheControl
NoCacheControl == [set |-> FALSE, tiers |-> [n \in TierNames |-> NoTier]]

set_cache_headers(cacheControl, user_id, user_is_synthetic, path, query, t) ==
    LET tier == cacheControl.tiers[control_type(user_id, user_is_synthetic)]
        none == [ETag |-> <<>>, CacheControl |-> NoText]
    IN  IF ~cacheControl.set \/ \A n \in TierNames : ~cacheControl.tiers[n].set
        THEN none
        ELSE IF ~TierTruthy(tier) THEN none
        ELSE IF tier.hasMaxAge /\ tier.maxAge # 0
        THEN [ETag |-> generate_etag(path, query, tier.maxAge, t),
              CacheControl |-> CacheControlFor(tier.maxAge, tier.directives)]
        ELSE IF TextTruthy(tier.directives)
        THEN [ETag |-> <<>>, CacheControl |-> tier.directives]
        ELSE none

\* the cacheControl maps of the model: the tier under test is any of Tiers,
\* the other two are absent or carry a marker of their own
CacheControls ==
    {[set |-> TRUE,
      tiers |-> [n \in TierNames |-> IF n = c THEN tier
                                     ELSE IF others
                                     THEN Tier(TRUE, 77, Text(<<"other">>))
                                     ELSE NoTier]] :
        c \in TierNames, tier \in Tiers, others \in BOOLEAN}
    \cup {NoCacheControl}

\* a handler composes the cache headers of its response
ApplyCacheHeaders ==
    /\ \E cacheControl \in CacheControls, user_id \in {None, "u1"},
          synthetic \in BOOLEAN, path \in Paths, query \in Queries :
          LET h == set_cache_headers(cacheControl, user_id, synthetic, path, query, 0)
              c == control_type(user_id, synthetic)
          IN  headers' = [applied |-> TRUE, tier |-> c,
                          max_age |-> IF cacheControl.tiers[c].hasMaxAge
                                      THEN cacheControl.tiers[c].maxAge ELSE 0 - 1,
                          directives |-> cacheControl.tiers[c].directives,
                          ETag |-> h.ETag, CacheControl |-> h.CacheControl]
    /\ UNCHANGED <<etag, verdict>>
    /\ UNCHANGED qVars
    /\ UNCHANGED cfgVars
    /\ UNCHANGED hVars

HeadersNext == ApplyCacheHeaders

SpecHeaders == CfgInit({NoNamespacesDoc}) /\ [][HeadersNext]_vars

\* C10 (as claimed): for the chosen tier with maxAge set, a Cache-Control
\* header is always emitted: "<directives>,max-age=<maxAge>" when directives
\* is set and does not contain "max-age=", "max-age=<maxAge>" otherwise.
C10_CacheControlAlways ==
    (headers.applied /\ headers.max_age > 0) =>
        /\ headers.CacheControl.set
        /\ headers.CacheControl.text =
              IF TextTruthy(headers.directives) /\ ~ContainsMaxAge(headers.directives)
              THEN headers.directives.text \o <<",", "max-age=", ToString(headers.max_age)>>
              ELSE <<"max-age=", ToString(headers.max_age)>>

-----------------------------------------------------------------------------
(* Claims on the configuration provider *)

\* the first value of key K on the way from a node up to the root
Nearest(chain, K) ==
    IF \A i \in 1..Len(chain) : chain[i][K] = None
    THEN None
    ELSE chain[CHOOSE i \in 1..Len(chain) :
                  /\ chain[i][K] # None
                  /\ \A j \in 1..(i - 1) : chain[j][K] = None][K]

\* the nodes of document doc from the node named by id up to the root
ChainOf(doc, id) ==
    LET nsNode == doc.namespaces[id.ns]
        b == CHOOSE x \in BucketOf(nsNode.recommenders, id.action) : TRUE
        recNode == nsNode.recommenders[b].recs[id.rec]
        varNode == recNode.variations[CHOOSE i \in 1..Len(recNode.variations) :
                                         recNode.variations[i].name = id.var]
    IN  IF id.rec = None THEN <<nsNode.k, doc.k>>
        ELSE IF id.var = None THEN <<recNode.k, nsNode.k, doc.k>>
        ELSE <<varNode.k, recNode.k, nsNode.k, doc.k>>

EffectiveOf(doc, id) == [K \in Keys |-> Nearest(ChainOf(doc, id), K)]

\* the node a lookup with these arguments is about
Requested(r) ==
    [ns |-> r.ns, action |-> r.action, rec |-> r.rec,
     var |-> IF r.op = "evaluate_variations"
             THEN (IF r.var = 1 THEN "v1" ELSE "v2") ELSE None]

LookupReturned ==
    /\ ret.kind = "value"
    /\ ret.op \in {"get_namespace_config", "get_recommender_config", "evaluate_variations"}

\* C1: the view returned by get_namespace_config, by get_recommender_config
\* under an action and by variation selection is the requested node, and each
\* of the four inherited keys has the node's own value when the fetched
\* document sets it there, else the value of the nearest ancestor setting it.
C1_Inheritance ==
    LookupReturned =>
        /\ ret.id = [Requested(ret) EXCEPT !.rec = IF ret.op = "get_namespace_config"
                                                   THEN None ELSE @,
                                           !.action = IF ret.op = "get_namespace_config"
                                                      THEN None ELSE @]
        /\ ret.k = EffectiveOf(fetched, ret.id)

\* C1 witness: the second variation of recommend-items/rec1 was selected after
\* earlier lookups had already written into the stored tree; it keeps its own
\* filters and takes cacheControl from the root, three levels up.
C1_Witness ==
    /\ LookupReturned
    /\ ret.id.var = "v2"
    /\ ret.k["filters"] = "V2"
    /\ ret.k["cacheControl"] = "R"
    /\ fetched.namespaces["ns1"].k["cacheControl"] = None
    /\ fetched.k["filters"] = "R"
    /\ ~ret.fresh

\* C2 (as claimed): after any lookup the cached document equals the document
\* as it was fetched.
C2_StoredTreeUnchanged ==
    ret.op \in {"get_namespace_config", "get_recommender_config", "evaluate_variations"}
        => config = fetched

\* C5 (as claimed): without an action the lookup returns the resolved config
\* of the first action bucket holding the name, and nothing when there is
\* none; with an action it looks under that action only.
C5_FirstMatchingAction ==
    (/\ ret.op = "get_recommender_config"
     /\ ret.kind \notin {"URLError", "JSONDecodeError"}
     /\ Truthy(fetched) /\ ret.ns \in DOMAIN fetched.namespaces) =>
        LET recommenders == fetched.namespaces[ret.ns].recommenders
            with == BucketsWith(recommenders, ret.rec)
            first == CHOOSE b \in with : \A x \in with : b <= x
        IN  IF ret.action = NoAction
            THEN IF with = {}
                 THEN ret.kind = "none"
                 ELSE /\ ret.kind = "value"
                      /\ ret.id = [ns |-> ret.ns, action |-> recommenders[first].action,
                                   rec |-> ret.rec, var |-> None]
                      /\ ret.k = EffectiveOf(fetched, ret.id)
            ELSE ret.kind = "value" => ret.id.action = ret.action

GetConfigReturned == ret.op = "get_config"

FetchSucceeded == ret.kind = "value" /\ ret.contacted

\* C3 (as claimed): a get_config call made while a document is cached and
\* its ttl lies in the future returns that document without contacting the
\* sidecar; any other call contacts it and, the fetch succeeding, caches the
\* delivered document with ttl = time of the fetch + max_age.
C3_CachedUntilTtl ==
    GetConfigReturned =>
        IF ret.pre.config.kind = "dict" /\ ret.pre.ttl > ret.pre.now
        THEN /\ ~ret.contacted
             /\ config = ret.pre.config /\ ttl = ret.pre.ttl
        ELSE /\ ret.contacted
             /\ FetchSucceeded => config = fetched /\ ttl = ret.at + ret.max_age

\* C3, restricted to documents that are not empty: holds of the code
C3_NonEmptyCachedUntilTtl ==
    GetConfigReturned =>
        IF Truthy(ret.pre.config) /\ ret.pre.ttl > ret.pre.now
        THEN /\ ~ret.contacted
             /\ config = ret.pre.config /\ ttl = ret.pre.ttl
        ELSE /\ ret.contacted
             /\ FetchSucceeded => config = fetched /\ ttl = ret.at + ret.max_age

\* C4 (as claimed): a failed fetch returns the previous snapshot when there
\* is one, leaving the cache unchanged, and raises ConfigError when there is
\* none.
C4_FallbackToSnapshot ==
    (GetConfigReturned /\ ret.contacted /\ ~FetchSucceeded) =>
        IF ret.pre.config.kind = "dict"
        THEN ret.kind = "value" /\ config = ret.pre.config /\ ttl = ret.pre.ttl
        ELSE ret.kind = "ConfigError"

\* C4 (amended): a failed fetch raises out of get_config whether or not a
\* snapshot exists, and the cached document stays as it was: the error of
\* the request itself (urlopen) leaves ttl alone too, a body that is not
\* JSON has already moved ttl to the time of the fetch + max_age.
C4_FetchFailurePropagates ==
    (GetConfigReturned /\ ret.contacted /\ ~FetchSucceeded) =>
        /\ ret.kind \in {"URLError", "JSONDecodeError"}
        /\ config = ret.pre.config
        /\ ret.kind = "URLError" => ttl = ret.pre.ttl
        /\ ret.kind = "JSONDecodeError" => ttl = ret.at + ret.max_age

\* C4 witness: the request failed while a snapshot was cached and expired
C4_Witness ==
    /\ GetConfigReturned
    /\ ret.kind = "URLError"
    /\ Truthy(ret.pre.config)
    /\ ret.pre.ttl <= ret.pre.now
    /\ config = ret.pre.config

-----------------------------------------------------------------------------
(* The request handlers (main.py) with the request-scoped BackgroundTasks   *)
(* and the decorator registry (response_decorator.py).  time.time() is      *)
(* Epoch + now seconds.                                                     *)

PREPARE_CHECK_FREQUENCY == 5

time_time == Epoch + now

\* time.time() * 1000 on the tick scale of is_resource_not_modified
time_ticks == time_time * 1000 * TicksPerMs

\* Two namespaces with the same recommenders: rec1 under recommend-items
\* and under related-items, the rerank bucket empty.  m[ns] is the type of
\* the namespace's inferenceItemMetadata (localdb with syncInterval
\* SyncInterval), or None; rec1 has an Evidently experiment with the metrics
\* m.metrics under the actions in m.experiments and two variations under the
\* actions in m.two, one under the others.
HandlerRecommender(m, action, S, tag) ==
    [Recommender(S, tag,
                 IF action \in m.two
                 THEN <<Variation("v1", {}, "V"), Variation("v2", {"filters"}, "V2")>>
                 ELSE <<Variation("v1", {}, "V")>>)
        EXCEPT !.experiments =
            IF action \in m.experiments
            THEN [feature |-> "f1", method |-> "evidently", metrics |-> m.metrics]
            ELSE NoExperiments]

HandlerDoc(m) ==
    [kind |-> "dict", hasNs |-> TRUE, k |-> NoKeys,
     namespaces |-> [x \in NsNames |->
        [k |-> [NoKeys EXCEPT !["inferenceItemMetadata"] = m[x]],
         recommenders |-> <<
            [action |-> ACTION_RECOMMEND_ITEMS,
             recs |-> [y \in {"rec1"} |->
                HandlerRecommender(m, ACTION_RECOMMEND_ITEMS, {}, "C")]],
            [action |-> ACTION_RELATED_ITEMS,
             recs |-> [y \in {"rec1"} |->
                HandlerRecommender(m, ACTION_RELATED_ITEMS, {"autoContext"}, "C2")]],
            [action |-> ACTION_RERANK_ITEMS,
             recs |-> IF m.rerank
                      THEN [y \in {"rec1"} |->
                              HandlerRecommender(m, ACTION_RERANK_ITEMS, {}, "C3")]
                      ELSE <<>>]
         >>]]]

\* the first document tracks exposures for two of its three metrics, the
\* second for none of its metrics
HandlerDocs ==
    {HandlerDoc([ns1 |-> "localdb", ns2 |-> "dynamodb",
                 experiments |-> {ACTION_RECOMMEND_ITEMS, ACTION_RELATED_ITEMS},
                 two |-> {ACTION_RECOMMEND_ITEMS},
                 metrics |-> <<Metric("m1", None), Metric("m2", "false"),
                               Metric("m3", "true")>>,
                 rerank |-> FALSE]),
     HandlerDoc([ns1 |-> None, ns2 |-> "localdb",
                 experiments |-> {ACTION_RELATED_ITEMS},
                 two |-> {ACTION_RECOMMEND_ITEMS, ACTION_RELATED_ITEMS},
                 metrics |-> <<Metric("m1", "false")>>,
                 rerank |-> FALSE])}

\* a document whose rerank-items bucket configures rec1, with an experiment
RerankDocs ==
    {HandlerDoc([ns1 |-> "localdb", ns2 |-> None,
                 experiments |-> {ACTION_RERANK_ITEMS}, two |-> {},
                 metrics |-> <<Metric("m1", "true")>>, rerank |-> TRUE])}

\* dict order of config['namespaces']
NsOrder == <<"ns1", "ns2">>

\* BackgroundTasks.submit: the pool is created on the first submit
Task(kind, ns) == [kind |-> kind, ns |-> ns, state |-> "queued", events |-> <<>>]

submit(bg, task) == [pool |-> TRUE, futures |-> Append(bg.futures, task)]

\* the class attributes of ResponseDecorator and the task group, as one value
Stores(bg, decs, check, downloads) ==
    [background |-> bg, decorators |-> decs, lastPrepareCheck |-> check,
     lastDownload |-> downloads, registered |-> FALSE, err |-> None]

\* the body of the loop of prepare_datastores for one namespace
PrepareNamespace(s, ns, metadata, start) ==
    IF metadata = None THEN s
    ELSE IF metadata = "localdb"
    THEN IF start - s.lastDownload[ns] > SyncInterval
         THEN [s EXCEPT !.lastDownload[ns] = start,
                        !.background = submit(s.background, Task("download", ns)),
                        !.registered = TRUE]
         ELSE s
    ELSE IF metadata = "dynamodb"
    THEN [s EXCEPT !.decorators[ns] = "dynamodb", !.registered = TRUE]
    ELSE s

RECURSIVE PrepareFrom(_, _, _, _)
PrepareFrom(s, doc, i, start) ==
    IF i > Len(NsOrder) THEN s
    ELSE PrepareFrom(
            IF NsOrder[i] \in DOMAIN doc.namespaces
            THEN PrepareNamespace(s, NsOrder[i],
                     doc.namespaces[NsOrder[i]].k["inferenceItemMetadata"], start)
            ELSE s,
            doc, i + 1, start)

prepare_datastores_every_call(doc, s, start) ==
    IF ~doc.hasNs
    THEN [s EXCEPT !.err = "KeyError"]
    ELSE [PrepareFrom(s, doc, 1, start) EXCEPT !.lastPrepareCheck = start,
                                              !.registered = TRUE]

\* ResponseDecorator.prepare_datastores(config, background) at time start
prepare_datastores(doc, s, start) ==
    IF start - s.lastPrepareCheck > PREPARE_CHECK_FREQUENCY
    THEN IF ~doc.hasNs
         THEN [s EXCEPT !.err = "KeyError"]
         ELSE [PrepareFrom(s, doc, 1, start) EXCEPT !.lastPrepareCheck = start,
                                                   !.registered = TRUE]
    ELSE s

\* ResponseDecorator.get_instance(namespace, config) on the namespace view n
get_instance(s, n, ns) ==
    IF n.kind # "value" \/ n.k["inferenceItemMetadata"] = None THEN s
    ELSE IF s.decorators[ns] # None THEN s
    ELSE IF n.k["inferenceItemMetadata"] \in {"localdb", "dynamodb"}
    THEN [s EXCEPT !.decorators[ns] = n.k["inferenceItemMetadata"], !.registered = TRUE]
    ELSE [s EXCEPT !.err = "UnsupportedInferenceItemMetadataType"]

\* lambda_handler: the response for an exception leaving app.resolve
ErrorResponse(e) ==
    IF e \in {"RecommenderNotConfigured", "NoVariationsConfigured"}
    THEN [NoResponse EXCEPT !.status = 404, !.code = e]
    ELSE IF e \in {"InvalidJSONRequestPayload", "InvalidRequestPayload"}
    THEN [NoResponse EXCEPT !.status = 400, !.code = e]
    ELSE IF e \in {"NoMatchedTarget", "UnsupportedInferenceItemMetadataType",
                   "UnsupportedEvaluationType", "UnsupportedEvaluationMethod"}
    THEN [NoResponse EXCEPT !.status = 500, !.code = e]
    ELSE [NoResponse EXCEPT !.status = 500, !.code = "InternalError"]

Endpoints == {"get_recommend_items", "get_related_items", "get_rerank_items"}

ActionOf(endpoint) ==
    IF endpoint = "get_recommend_items" THEN ACTION_RECOMMEND_ITEMS
    ELSE IF endpoint = "get_related_items" THEN ACTION_RELATED_ITEMS
    ELSE ACTION_RERANK_ITEMS

Program_late_check(endpoint) ==
    IF endpoint = "import" THEN <<"enter", "prepare", "exit">>
    ELSE IF endpoint = "post_rerank_items"
    THEN <<"enter", "prepare", "body", "call", "evaluate", "resolve", "headers",
           "exit">>
    ELSE IF endpoint = "get_rerank_items"
    THEN <<"enter", "prepare", "check", "call", "evaluate", "resolve", "headers",
           "exit">>
    ELSE <<"enter", "prepare", "check", "evaluate", "resolve", "headers", "exit">>

\* the statements of a handler in program order; "import" is the module
\* body, "call" the call of _rerank_items by the two rerank handlers
Program(endpoint) ==
    IF endpoint = "import" THEN <<"enter", "prepare", "exit">>
    ELSE IF endpoint = "post_rerank_items"
    THEN <<"enter", "prepare", "body", "call", "evaluate", "resolve", "headers",
           "exit">>
    ELSE IF endpoint = "get_rerank_items"
    THEN <<"check", "enter", "prepare", "call", "evaluate", "resolve", "headers",
           "exit">>
    ELSE <<"check", "enter", "prepare", "evaluate", "resolve", "headers", "exit">>

StepAfter(endpoint, step) ==
    LET P == Program(endpoint)
        i == CHOOSE j \in 1..Len(P) : P[j] = step
    IN  P[i + 1]

shutdown_nowait(bg) == TRUE

\* self.pool.shutdown(True) returns once every submitted task has finished
shutdown(bg) == \A i \in 1..Len(bg.futures) : bg.futures[i].state # "queued"

\* the If-None-Match values of the model: none, one without a hyphen, one
\* that int() rejects, and a tag issued at time Epoch for EtagSeconds seconds
RequestHeaders ==
    {<<>>, <<NotInt>>, <<NotInt, 5>>,
     generate_etag(<<47, 97>>, <<>>, EtagSeconds, Epoch * 1000 * TicksPerMs)}

HandlerInitWith(D) ==
    /\ HandlerState("import")
    /\ PureIdle
    /\ sidecar \in D
    /\ config = NoneDoc
    /\ ttl = 0
    /\ now = 0
    /\ fetched = NoneDoc
    /\ ret = NoRet

HandlerInit == HandlerInitWith(HandlerDocs)

\* the effect of a get_config outcome o on the provider, the cache then
\* being left as document c
Fetched(o, c) ==
    /\ config' = c
    /\ ttl' = o.ttl
    /\ now' = o.now
    /\ fetched' = IF o.fresh THEN o.config ELSE fetched
    /\ UNCHANGED <<sidecar, ret>>
    /\ UNCHANGED pVars

\* an exception e leaves the handler body
Raise(e) ==
    /\ exc' = e
    /\ pc' = "exit"

\* the recommender dict that get_recommender_config returned as view r
RecommenderAt(r) ==
    LET recommenders == r.doc.namespaces[r.id.ns].recommenders
        b == CHOOSE x \in BucketOf(recommenders, r.id.action) : TRUE
    IN  recommenders[b].recs[r.id.rec]

\* str.isdigit() and int(str) on a string of character codes
isdigit(str) == str # <<>> /\ \A i \in 1..Len(str) : str[i] \in 48..57

RECURSIVE int(_)
int(str) == IF str = <<>> THEN 0 ELSE 10 * int(SubSeq(str, 1, Len(str) - 1)) + (str[Len(str)] - 48)

\* the character codes of the variation names of the model
NameCodes == [v1 |-> <<118, 49>>, v2 |-> <<118, 50>>]

\* variations.get(variation_id): the position of the variation with that
\* name, 0 for None
PositionOf(variations, str) ==
    IF \E i \in 1..Len(variations) : NameCodes[variations[i].name] = str
    THEN CHOOSE i \in 1..Len(variations) : NameCodes[variations[i].name] = str
    ELSE 0

\* list(variations.items())[idx]: the position subscripted by idx, negative
\* idx counting from the end; 0 for IndexError
ListIndex(variations, idx) ==
    IF idx \in 0..(Len(variations) - 1) THEN idx + 1
    ELSE IF idx \in (0 - Len(variations))..(0 - 1) THEN Len(variations) + idx + 1
    ELSE 0

StringValue(str, reason) == [NoAnswer EXCEPT !.kind = "stringValue", !.str = str, !.reason = reason]

LongValue(n, reason) == [NoAnswer EXCEPT !.kind = "longValue", !.long = n, !.reason = reason]

Reasons == {"EXPERIMENT_RULE_MATCH", "DEFAULT"}

\* "v1", "v2", "0", "1", "2", "9", "zz" and ""
AnswerStrings ==
    {NameCodes.v1, NameCodes.v2, <<48>>, <<49>>, <<50>>, <<57>>, <<122, 122>>, <<>>}

\* what Evidently may answer: a string or long value under either reason, a
\* value of another type, ResourceNotFoundException or another client error
Answers ==
    {StringValue(str, reason) : str \in AnswerStrings, reason \in Reasons}
    \cup {LongValue(n, reason) : n \in (0 - MaxVariations - 1)..(MaxVariations + 1),
                                 reason \in Reasons}
    \cup {[NoAnswer EXCEPT !.kind = other, !.reason = "DEFAULT"] :
            other \in {"boolValue", "ResourceNotFoundException", "ClientError"}}

\* the answers the handler specification lets Evidently give
FewAnswers ==
    {LongValue(1, "EXPERIMENT_RULE_MATCH"), StringValue(NameCodes.v1, "DEFAULT"),
     StringValue(<<57>>, "DEFAULT"),
     [NoAnswer EXCEPT !.kind = "ResourceNotFoundException", !.reason = "DEFAULT"]}

Selected(err, pos, experiment, submitted, events) ==
    [err |-> err, pos |-> pos, experiment |-> experiment, submitted |-> submitted,
     events |-> events]

\* the names of the metrics in seq whose trackExposures is not false, in order
TrackedMetrics_all(metrics) == [i \in 1..Len(metrics) |-> metrics[i].name]

RECURSIVE TrackedMetrics(_)
TrackedMetrics(metrics) ==
    IF metrics = <<>> THEN <<>>
    ELSE (IF metrics[1].trackExposures \in {None, "true"} THEN <<metrics[1].name>> ELSE <<>>)
            \o TrackedMetrics(Tail(metrics))

(* evidently_evaluate_feature(feature, experiment_config, variations, ...)  *)
(* when Evidently gives answer a: the exception raised or the position of   *)
(* the variation returned, the experiment returned and the exposure events  *)
(* submitted.  The handler of ResourceNotFoundException reads the local     *)
(* experiment, which line 101 has not assigned yet.                         *)
evidently_evaluate_feature(experiment_config, variations, a) ==
    LET byName == PositionOf(variations, a.str)
        pos == IF a.kind = "stringValue" /\ a.str # <<>>
               THEN (IF byName = 0 /\ isdigit(a.str)
                     THEN ListIndex(variations, int(a.str)) ELSE byName)
               ELSE ListIndex(variations, a.long)
        matched == a.reason = "EXPERIMENT_RULE_MATCH"
        tracked == matched /\ experiment_config.metrics # <<>>
    IN  IF a.kind = "ResourceNotFoundException"
        THEN Selected("UnboundLocalError", 0, None, FALSE, <<>>)
        ELSE IF a.kind = "ClientError"
        THEN Selected("ClientError", 0, None, FALSE, <<>>)
        ELSE IF ~(a.kind = "stringValue" /\ a.str # <<>>) /\ ~(a.kind = "longValue" /\ a.long # 0)
        THEN Selected("UnsupportedEvaluationType", 0, None, FALSE, <<>>)
        ELSE IF pos = 0
        THEN Selected("NoMatchedTarget", 0, None, FALSE, <<>>)
        ELSE Selected(None, pos, IF matched THEN experiment_config.feature ELSE None,
                      tracked,
                      IF tracked THEN TrackedMetrics(experiment_config.metrics) ELSE <<>>)

UseFirstVariation_whatever_user(rec_config, user_id) ==
    \/ rec_config.experiments = NoExperiments
    \/ Len(rec_config.variations) = 1

\* if not experiments or len(variations) == 1 or not user_id
UseFirstVariation(rec_config, user_id) ==
    \/ rec_config.experiments = NoExperiments
    \/ Len(rec_config.variations) = 1
    \/ user_id = None

Evaluated(doc, err, called, v, a, e) ==
    [doc |-> doc, err |-> err, called |-> called,
     evaluation |-> [answer |-> a, var |-> v.id.var, k |-> v.k,
                     experiment |-> e.experiment, evaluator |-> a # NoAnswer,
                     submitted |-> e.submitted, events |-> e.events]]

NotSelected == Selected(None, 0, None, FALSE, <<>>)

(* A handler's get_recommender_config(...) and evaluate_variations(...) on  *)
(* document doc, Evidently answering with one of answers: the outcomes,     *)
(* each with the document left behind, the exception raised, whether        *)
(* evaluate_variations was entered, and the variation and experiment        *)
(* returned.                                                                *)
evaluate_variations(doc, ns, rec, action, user_id, answers) ==
    LET r == get_recommender_config(doc, ns, rec, action)
        none == [NoView EXCEPT !.doc = r.doc]
    IN  IF r.kind # "value"
        THEN {Evaluated(r.doc, "RecommenderNotConfigured", FALSE, none, NoAnswer, NotSelected)}
        ELSE IF Len(RecommenderAt(r).variations) = 0
        THEN {Evaluated(r.doc, "NoVariationsConfigured", TRUE, none, NoAnswer, NotSelected)}
        ELSE IF UseFirstVariation(RecommenderAt(r), user_id)
        THEN {LET v == select_variation(doc, ns, rec, action, 1)
              IN  Evaluated(v.doc, None, TRUE, v, NoAnswer, NotSelected)}
        ELSE IF RecommenderAt(r).experiments.method # "evidently"
        THEN {Evaluated(r.doc, "UnsupportedEvaluationMethod", TRUE, none, NoAnswer, NotSelected)}
        ELSE {LET e == evidently_evaluate_feature(RecommenderAt(r).experiments,
                                                  RecommenderAt(r).variations, a)
                  v == select_variation(doc, ns, rec, action, e.pos)
              IN  IF e.err # None
                  THEN Evaluated(r.doc, e.err, TRUE, none, a, NotSelected)
                  ELSE Evaluated(v.doc, None, TRUE, v, a, e) :
                 a \in answers}

\* the module body of main.py starts to run in a new execution environment
ColdStart ==
    /\ pc = "import"
    /\ req' = [NoRequest EXCEPT !.endpoint = "import"]
    /\ pc' = Program("import")[1]
    /\ UNCHANGED <<background, exc, response, decorators, lastPrepareCheck,
                   lastDownload, did, evaluation>>
    /\ UNCHANGED cfgVars
    /\ UNCHANGED pVars

\* the router calls the handler of a GET request; the task group of the
\* previous invocation, once joined, is garbage
Request ==
    /\ pc \in {"idle", "returned"}
    /\ \E endpoint \in Endpoints, ns \in NsNames, rec \in RecNames,
          user_id \in {None, "u1"}, header \in RequestHeaders :
        /\ user_id = None => endpoint = "get_related_items"
        /\ (user_id = None \/ rec # "rec1" \/ header # <<>>) => ns = "ns1"
        /\ rec # "rec1" => (endpoint = "get_recommend_items" /\ header = <<>>)
        /\ user_id = None => header = <<>>
        /\ ns # "ns1" => endpoint = "get_related_items"
        /\ header \in {<<NotInt>>, <<NotInt, 5>>} => endpoint = "get_recommend_items"
        /\ req' = [endpoint |-> endpoint, ns |-> ns, rec |-> rec,
                   user_id |-> user_id, header |-> header, body |-> None]
        /\ pc' = Program(endpoint)[1]
    /\ exc' = None
    /\ response' = NoResponse
    /\ did' = NothingDone
    /\ evaluation' = NoEvaluation
    /\ background' = IF shutdown(background) THEN NoBackground ELSE background
    /\ UNCHANGED <<decorators, lastPrepareCheck, lastDownload>>
    /\ UNCHANGED cfgVars
    /\ UNCHANGED pVars

\* the request bodies of the model, by what json.loads makes of them
Bodies == {"list", "dict", "JSONDecodeError"}

\* the router calls post_rerank_items
PostRequest ==
    /\ pc \in {"idle", "returned"}
    /\ \E body \in Bodies :
        req' = [endpoint |-> "post_rerank_items", ns |-> "ns1", rec |-> "rec1",
                user_id |-> "u1", header |-> <<>>, body |-> body]
    /\ pc' = Program("post_rerank_items")[1]
    /\ exc' = None
    /\ response' = NoResponse
    /\ did' = NothingDone
    /\ evaluation' = NoEvaluation
    /\ background' = IF shutdown(background) THEN NoBackground ELSE background
    /\ UNCHANGED <<decorators, lastPrepareCheck, lastDownload>>
    /\ UNCHANGED cfgVars
    /\ UNCHANGED pVars

\* input_list = app.current_event.json_body, which must be a list
Body ==
    /\ pc = "body"
    /\ IF req.body = "JSONDecodeError" THEN Raise("InvalidJSONRequestPayload")
       ELSE IF req.body # "list" THEN Raise("InvalidRequestPayload")
       ELSE /\ pc' = StepAfter(req.endpoint, "body")
            /\ exc' = exc
    /\ UNCHANGED <<req, background, response, decorators, lastPrepareCheck,
                   lastDownload, did, evaluation>>
    /\ UNCHANGED cfgVars
    /\ UNCHANGED pVars

\* def _rerank_items(namespace, recommender, user_id, item_ids, background)
RerankParameters ==
    <<"namespace", "recommender", "user_id", "item_ids", "background">>

\* the arguments the two handlers pass to _rerank_items
RerankArguments(endpoint) ==
    IF endpoint = "post_rerank_items"
    THEN <<"namespace", "recommender", "user_id", "input_list">>
    ELSE <<"namespace", "recommender", "user_id", "item_ids", "background">>

\* the call of _rerank_items: positional arguments are bound to the
\* parameters, none of which has a default
Call ==
    /\ pc = "call"
    /\ IF Len(RerankArguments(req.endpoint)) # Len(RerankParameters)
       THEN Raise("TypeError")
       ELSE /\ pc' = StepAfter(req.endpoint, "call")
            /\ exc' = exc
    /\ UNCHANGED <<req, background, response, decorators, lastPrepareCheck,
                   lastDownload, did, evaluation>>
    /\ UNCHANGED cfgVars
    /\ UNCHANGED pVars

\* if is_resource_not_modified(): return Response(NOT_MODIFIED)
Check ==
    /\ pc = "check"
    /\ LET v == is_resource_not_modified(req.header, time_ticks)
       IN  \/ /\ v = "True"
              /\ response' = [NoResponse EXCEPT !.status = 304]
              /\ pc' = "exit"
              /\ exc' = exc
           \/ /\ v = "ValueError"
              /\ Raise("ValueError")
              /\ response' = response
           \/ /\ v = "False"
              /\ pc' = StepAfter(req.endpoint, "check")
              /\ UNCHANGED <<exc, response>>
    /\ UNCHANGED <<req, background, decorators, lastPrepareCheck, lastDownload, did,
                   evaluation>>
    /\ UNCHANGED cfgVars
    /\ UNCHANGED pVars

\* with BackgroundTasks() as background:
Enter ==
    /\ pc = "enter"
    /\ background' = NoBackground
    /\ did' = [did EXCEPT !.opened = TRUE]
    /\ pc' = StepAfter(req.endpoint, "enter")
    /\ UNCHANGED <<req, exc, response, decorators, lastPrepareCheck, lastDownload,
                   evaluation>>
    /\ UNCHANGED cfgVars
    /\ UNCHANGED pVars

\* ResponseDecorator.prepare_datastores(config.get_config(), background)
Prepare ==
    /\ pc = "prepare"
    /\ \E o \in get_config(config, ttl, now, DefaultMaxAge, {sidecar}, {0}) :
        /\ Fetched(o, o.config)
        /\ IF o.err # None
           THEN /\ Raise(o.err)
                /\ UNCHANGED <<background, decorators, lastPrepareCheck,
                               lastDownload, did>>
           ELSE LET s == prepare_datastores(o.val,
                             Stores(background, decorators, lastPrepareCheck,
                                    lastDownload), time_time)
                IN  /\ background' = s.background
                    /\ decorators' = s.decorators
                    /\ lastPrepareCheck' = s.lastPrepareCheck
                    /\ lastDownload' = s.lastDownload
                    /\ did' = [did EXCEPT !.prepared = TRUE,
                                          !.registered = @ \/ s.registered]
                    /\ IF s.err # None THEN Raise(s.err)
                       ELSE /\ pc' = StepAfter(req.endpoint, "prepare")
                            /\ exc' = exc
    /\ UNCHANGED <<req, response, evaluation>>

\* rec_config = config.get_recommender_config(...); 404 if not rec_config;
\* variation, experiment = evaluate_variations(rec_config, user_id, background)
Evaluate(answers) ==
    /\ pc = "evaluate"
    /\ \E o \in get_config(config, ttl, now, DefaultMaxAge, {sidecar}, {0}) :
        IF o.err # None
        THEN /\ Fetched(o, o.config)
             /\ Raise(o.err)
             /\ UNCHANGED <<background, did, evaluation>>
        ELSE \E e \in evaluate_variations(o.val, req.ns, req.rec,
                                          ActionOf(req.endpoint), req.user_id, answers) :
             /\ Fetched(o, e.doc)
             /\ did' = [did EXCEPT !.evaluated = @ \/ e.called]
             /\ evaluation' = e.evaluation
             /\ background' = IF e.evaluation.submitted
                              THEN submit(background,
                                          [Task("exposure", req.ns) EXCEPT
                                              !.events = e.evaluation.events])
                              ELSE background
             /\ IF e.err # None THEN Raise(e.err)
                ELSE /\ pc' = StepAfter(req.endpoint, "evaluate")
                     /\ exc' = exc
    /\ UNCHANGED <<req, response, decorators, lastPrepareCheck, lastDownload>>

\* the resolver of the variation is called (the variations of the model are
\* of a type that is decorated), then post_decorate_items(namespace, response)
Resolve ==
    /\ pc = "resolve"
    /\ \/ /\ Raise("ClientError")
          /\ did' = [did EXCEPT !.resolved = TRUE]
          /\ UNCHANGED decorators
          /\ UNCHANGED cfgVars
          /\ UNCHANGED pVars
       \/ \E o \in get_config(config, ttl, now, DefaultMaxAge, {sidecar}, {0}) :
            IF o.err # None
            THEN /\ Fetched(o, o.config)
                 /\ Raise(o.err)
                 /\ did' = [did EXCEPT !.resolved = TRUE]
                 /\ UNCHANGED decorators
            ELSE LET n == get_namespace_config(o.val, req.ns)
                     s == get_instance(Stores(background, decorators,
                              lastPrepareCheck, lastDownload), n, req.ns)
                 IN  /\ Fetched(o, n.doc)
                     /\ decorators' = s.decorators
                     /\ did' = [did EXCEPT !.resolved = TRUE,
                                           !.registered = @ \/ s.registered]
                     /\ IF s.err # None THEN Raise(s.err)
                        ELSE /\ pc' = StepAfter(req.endpoint, "resolve")
                             /\ exc' = exc
    /\ UNCHANGED <<req, background, response, lastPrepareCheck, lastDownload,
                   evaluation>>

\* if response and experiment: response['matchedExperiment'] = experiment;
\* set_cache_headers(variation, headers, ...), which returns at once for a
\* variation without cacheControl, and return Response(OK)
Respond ==
    /\ pc = "headers"
    /\ response' = [NoResponse EXCEPT
                        !.status = 200,
                        !.matchedExperiment = evaluation.experiment,
                        !.cacheControl = IF req.endpoint = "post_rerank_items"
                                         THEN "no-store" ELSE None]
    /\ pc' = StepAfter(req.endpoint, "headers")
    /\ UNCHANGED <<req, background, exc, decorators, lastPrepareCheck,
                   lastDownload, did, evaluation>>
    /\ UNCHANGED cfgVars
    /\ UNCHANGED pVars

(* Control leaves the handler: BackgroundTasks.__exit__ if the with block   *)
(* was entered, then lambda_handler turns an exception into a response.  An *)
(* exception in the module body ends the execution environment; the next    *)
(* one starts from the initial state.                                       *)
Exit ==
    /\ pc = "exit"
    /\ (did.opened /\ background.pool) => shutdown(background)
    /\ IF req.endpoint = "import"
       THEN IF exc = None
            THEN /\ pc' = "idle"
                 /\ UNCHANGED <<req, background, exc, response, decorators,
                                lastPrepareCheck, lastDownload, did, evaluation>>
                 /\ UNCHANGED <<config, ttl, fetched>>
            ELSE /\ pc' = "import"
                 /\ req' = NoRequest
                 /\ background' = NoBackground
                 /\ exc' = None
                 /\ response' = NoResponse
                 /\ decorators' = [n \in NsNames |-> None]
                 /\ lastPrepareCheck' = 0
                 /\ lastDownload' = [n \in NsNames |-> 0]
                 /\ did' = NothingDone
                 /\ evaluation' = NoEvaluation
                 /\ config' = NoneDoc
                 /\ ttl' = 0
                 /\ fetched' = NoneDoc
       ELSE /\ pc' = "returned"
            /\ response' = IF exc # None THEN ErrorResponse(exc) ELSE response
            /\ UNCHANGED <<req, background, exc, decorators, lastPrepareCheck,
                           lastDownload, did, evaluation>>
            /\ UNCHANGED <<config, ttl, fetched>>
    /\ UNCHANGED <<now, sidecar, ret>>
    /\ UNCHANGED pVars

(* A pool thread runs a submitted task to its end.  _download_localdb       *)
(* registers a new LocalDbResponseDecorator, or logs AccessDenied, or       *)
(* raises another ClientError; record_evidently_events returns or raises.   *)
RunTask ==
    /\ \E i \in 1..Len(background.futures) :
        /\ background.futures[i].state = "queued"
        /\ \E result \in {"done", "AccessDenied", "raised"} :
            /\ result = "AccessDenied" => background.futures[i].kind = "download"
            /\ background' = [background EXCEPT !.futures[i].state =
                                 IF result = "raised" THEN "raised" ELSE "done"]
            /\ IF result = "done" /\ background.futures[i].kind = "download"
               THEN /\ decorators' = [decorators EXCEPT
                                         ![background.futures[i].ns] = "localdb"]
                    /\ did' = [did EXCEPT !.registered = TRUE]
               ELSE UNCHANGED <<decorators, did>>
    /\ UNCHANGED <<pc, req, exc, response, lastPrepareCheck, lastDownload, evaluation>>
    /\ UNCHANGED cfgVars
    /\ UNCHANGED pVars

\* time passes between two invocations
Pause ==
    /\ pc \in {"idle", "returned"}
    /\ Tick(TickSeconds, MaxClock)

HandlerNext ==
    \/ ColdStart
    \/ Request
    \/ Call
    \/ Check
    \/ Enter
    \/ Prepare
    \/ Evaluate(FewAnswers)
    \/ Resolve
    \/ Respond
    \/ Exit
    \/ RunTask
    \/ Pause

SpecHandler == HandlerInit /\ [][HandlerNext]_vars

\* the handlers with Evidently free to give any of its answers, the requests
\* following the cold start at once
ExperimentNext ==
    \/ ColdStart
    \/ Request
    \/ Call
    \/ Check
    \/ Enter
    \/ Prepare
    \/ Evaluate(Answers)
    \/ Resolve
    \/ Respond
    \/ Exit
    \/ RunTask

SpecExperiment == HandlerInit /\ [][ExperimentNext]_vars

\* the handlers with POST /rerank-items among them, over a document that
\* configures a reranking recommender
RerankNext ==
    \/ ColdStart
    \/ Request
    \/ PostRequest
    \/ Body
    \/ Call
    \/ Check
    \/ Enter
    \/ Prepare
    \/ Evaluate(FewAnswers)
    \/ Resolve
    \/ Respond
    \/ Exit
    \/ RunTask
    \/ Pause

SpecRerank == HandlerInitWith(RerankDocs) /\ [][RerankNext]_vars

\* C18: when POST /rerank-items has been answered, a body that is a JSON
\* array has been handed to the resolver of the selected variation and, if
\* nothing failed there, the answer is 200 with Cache-Control: no-store; a
\* body that is not a JSON array has been answered with a 400.
C18_PostRerankDispatchedOrRejected ==
    (pc = "returned" /\ req.endpoint = "post_rerank_items") =>
        IF req.body = "list"
        THEN /\ did.resolved
             /\ exc = None =>
                    /\ response.status = 200
                    /\ response.cacheControl = "no-store"
        ELSE /\ response.status = 400
             /\ ~did.resolved

-----------------------------------------------------------------------------
(* Claims on the request handlers *)

\* C6: when a handler has returned its response, normally or through an
\* exception raised in its body, no task submitted to the request's
\* BackgroundTasks is still unfinished.
C6_TasksJoinedBeforeReturn ==
    pc \in {"returned", "idle"} =>
        \A i \in 1..Len(background.futures) : background.futures[i].state # "queued"

\* a handler body that raised after a task was submitted has returned
C6_Witness ==
    /\ pc = "returned"
    /\ exc # None
    /\ did.opened
    /\ Len(background.futures) > 0

\* C7 (as claimed): an exception raised by a submitted task is re-raised when
\* the group is closed, so a request one of whose tasks raised does not
\* return a successful response.
C7_TaskExceptionSurfaces ==
    (pc = "returned" /\ \E i \in 1..Len(background.futures) :
                            background.futures[i].state = "raised")
        => response.status # 200

\* C8: a GET inference request answered NOT MODIFIED has opened no task
\* group, has not called prepare_datastores, the experiment evaluator or a
\* resolver, and the decorator registry was not written during the request.
C8_NotModifiedBeforeSideEffects ==
    response.status = 304 => did = NothingDone

\* a rerank GET was answered NOT MODIFIED in an environment whose registry
\* holds a decorator
C8_Witness ==
    /\ pc = "returned"
    /\ response.status = 304
    /\ req.endpoint = "get_rerank_items"
    /\ \E n \in NsNames : decorators[n] # None

\* an If-None-Match value that is not of the form generate_etag produces
Malformed(header) ==
    /\ header # <<>>
    /\ \/ Len(header) < 2
       \/ header[Len(header) - 1] = NotInt
       \/ header[Len(header)] = NotInt

\* C30: a GET request whose If-None-Match value is malformed (fewer than two
\* segments, or one of the last two segments is not an integer) is not
\* answered NOT MODIFIED and does not end in the ValueError of the check.
C30_MalformedTagIsIgnored ==
    (pc = "returned" /\ Malformed(req.header)) =>
        /\ response.status # 304
        /\ exc # "ValueError"

-----------------------------------------------------------------------------
(* Claims on variation selection.  The recommender the request names is     *)
(* read from the document as the sidecar delivered it.                      *)

RequestedRecommender ==
    LET recommenders == fetched.namespaces[req.ns].recommenders
        b == CHOOSE x \in BucketOf(recommenders, ActionOf(req.endpoint)) : TRUE
    IN  recommenders[b].recs[req.rec]

\* evaluate_variations was entered for a recommender with variations
EvaluationEntered ==
    /\ did.evaluated
    /\ Len(RequestedRecommender.variations) > 0

RequestedVariation(name) ==
    [ns |-> req.ns, action |-> ActionOf(req.endpoint), rec |-> req.rec, var |-> name]

ExposureTasks ==
    {i \in 1..Len(background.futures) : background.futures[i].kind = "exposure"}

\* the variation at 0-based position idx was returned
SelectedAt(idx) ==
    /\ idx \in 0..(Len(RequestedRecommender.variations) - 1)
    /\ evaluation.var = RequestedRecommender.variations[idx + 1].name

FailedWith(e) == evaluation.var = None /\ exc = e

\* C11: for a recommender without experiments, or with one variation, or a
\* request without user id, evaluate_variations returns the first variation
\* with the inherited keys resolved and no experiment; Evidently is not
\* called and no exposure task is submitted.
C11_FirstVariationWithoutEvaluator ==
    (EvaluationEntered /\ (\/ RequestedRecommender.experiments = NoExperiments
                           \/ Len(RequestedRecommender.variations) = 1
                           \/ req.user_id = None))
        => /\ SelectedAt(0)
           /\ evaluation.k = EffectiveOf(fetched, RequestedVariation(evaluation.var))
           /\ evaluation.experiment = None
           /\ ~evaluation.evaluator
           /\ ExposureTasks = {}

\* a related-items request without user id for a recommender that has an
\* experiment and two variations has returned 200
C11_Witness ==
    /\ pc = "returned"
    /\ response.status = 200
    /\ req.user_id = None
    /\ RequestedRecommender.experiments # NoExperiments
    /\ Len(RequestedRecommender.variations) = 2
    /\ evaluation.var = "v1"

\* C12 (as claimed): a long value i selects the variation at position i for
\* i in 0..n-1 and fails with NoMatchedTarget outside; a string value selects
\* the variation of that name, or, naming none and being all digits, is
\* treated as an index in the same way.
C12_IndexOrNameSelects ==
    (EvaluationEntered /\ evaluation.answer.kind \in {"stringValue", "longValue"})
        => LET a == evaluation.answer
               n == Len(RequestedRecommender.variations)
               byIndex(idx) == IF idx \in 0..(n - 1) THEN SelectedAt(idx)
                               ELSE FailedWith("NoMatchedTarget")
           IN  IF a.kind = "longValue" THEN byIndex(a.long)
               ELSE IF PositionOf(RequestedRecommender.variations, a.str) # 0
               THEN SelectedAt(PositionOf(RequestedRecommender.variations, a.str) - 1)
               ELSE isdigit(a.str) => byIndex(int(a.str))

\* C13 (as claimed): when Evidently answers ResourceNotFoundException the
\* first variation is returned without experiment, no exposure task is
\* submitted and no exception leaves evaluate_variations.
C13_FallbackToFirstVariation ==
    (EvaluationEntered /\ evaluation.answer.kind = "ResourceNotFoundException")
        => /\ SelectedAt(0)
           /\ evaluation.experiment = None
           /\ ExposureTasks = {}
           /\ exc # "UnboundLocalError"

-----------------------------------------------------------------------------
(* get_recommend_items and get_related_items from the selected variation to *)
(* the response: look-ahead, the resolver call, decoration, the response    *)
(* post-processor, truncation, and lambda_handler's answer to an exception. *)

PERSONALIZE_GET_RECS_MAX_NUM_RESULTS == 500

PersonalizeTypes == {"personalize-campaign", "personalize-recommender"}

VariationTypes == PersonalizeTypes \cup {"sagemaker", "lambda", "http"}

\* rec_config.get('responsePostProcessor'); a key that is absent and a key
\* that is 0 are both falsy and both written 0
PostProcessor(m, M) ==
    [set |-> TRUE, lookAheadMultiplier |-> m, lookAheadMaximumValue |-> M]

NoPostProcessor ==
    [set |-> FALSE, lookAheadMultiplier |-> 0, lookAheadMaximumValue |-> 0]

min(a, b) == IF a <= b THEN a ELSE b

\* inference_num_results after the look-ahead block
look_ahead(num_results, post_process_config) ==
    IF post_process_config.set /\ post_process_config.lookAheadMultiplier # 0
    THEN LET n == num_results * post_process_config.lookAheadMultiplier
         IN  IF post_process_config.lookAheadMaximumValue # 0
             THEN min(n, post_process_config.lookAheadMaximumValue)
             ELSE n
    ELSE num_results

inference_num_results_unclamped(num_results, post_process_config, type) ==
    look_ahead(num_results, post_process_config)

\* the num_results argument of the resolver call for a variation type
inference_num_results(num_results, post_process_config, type) ==
    IF type \in PersonalizeTypes
    THEN min(look_ahead(num_results, post_process_config),
             PERSONALIZE_GET_RECS_MAX_NUM_RESULTS)
    ELSE look_ahead(num_results, post_process_config)

\* exceptions: PersonalizationError and its subclasses carry type,
\* status_code, error_code and error_message; any other class is unhandled
NoError ==
    [class |-> None, type |-> None, status_code |-> 0, error_code |-> None,
     error_message |-> None]

PersonalizationError(type, status_code, error_code, error_message) ==
    [class |-> "PersonalizationError", type |-> type, status_code |-> status_code,
     error_code |-> error_code, error_message |-> error_message]

Unhandled(class) == [NoError EXCEPT !.class = class, !.error_message = class]

from_client_error_base(e) ==
    PersonalizationError("Personalize", 500, e.code, e.message)

\* PersonalizeError.from_client_error
from_client_error(e) ==
    IF e.code = "ThrottlingException"
    THEN PersonalizationError("Personalize", 429, e.code, e.message)
    ELSE PersonalizationError("Personalize", 500, e.code, e.message)

\* what a backend (Personalize, SageMaker, Lambda, the HTTP endpoint, the
\* post-processor function, DynamoDB) does with a call
Returned(itemList) ==
    [kind |-> "ok", code |-> None, message |-> None, itemList |-> itemList]

ClientError(code) ==
    [kind |-> "ClientError", code |-> code, message |-> "Rate exceeded",
     itemList |-> <<>>]

\* lambda_handler: the response for the handler's Response(OK), or for the
\* exception e that left app.resolve
OkResponse ==
    [statusCode |-> 200, type |-> None, code |-> None, message |-> None]

lambda_handler(e) ==
    IF e = NoError THEN OkResponse
    ELSE IF e.class = "PersonalizationError"
    THEN [statusCode |-> e.status_code, type |-> e.type, code |-> e.error_code,
          message |-> e.error_message]
    ELSE IF e.class = "ParamValidationError"
    THEN [statusCode |-> 400, type |-> "Validation", code |-> "ValidationError",
          message |-> e.error_message]
    ELSE [statusCode |-> 500, type |-> "Unhandled", code |-> "InternalError",
          message |-> e.error_message]

\* PersonalizeResolver.get_recommend_items / get_related_items for an arn
\* that is configured: the parameters of get_recommendations, the throttle
\* metric, and the response or the exception
get_recommendations(metadata_config, num_results, include_metadata, backend) ==
    [called |-> TRUE,
     numResults |-> num_results,
     metadataColumns |-> include_metadata /\ metadata_config = "personalize",
     throttled |-> IF backend.kind = "ClientError" /\ backend.code = "ThrottlingException"
                   THEN 1 ELSE 0,
     err |-> IF backend.kind = "ClientError" THEN from_client_error(backend)
             ELSE NoError,
     itemList |-> backend.itemList]

\* the SageMaker and Lambda resolvers pass num_results in the payload and
\* let the client's exception through
invoke(num_results, backend) ==
    [called |-> TRUE,
     numResults |-> num_results,
     metadataColumns |-> FALSE,
     throttled |-> 0,
     err |-> IF backend.kind = "ClientError" THEN Unhandled("ClientError") ELSE NoError,
     itemList |-> backend.itemList]

\* type http: urllib.request.urlopen(url), no resolver and no num_results
urlopen(backend) ==
    [called |-> FALSE,
     numResults |-> 0,
     metadataColumns |-> FALSE,
     throttled |-> 0,
     err |-> IF backend.kind = "ClientError" THEN Unhandled("URLError") ELSE NoError,
     itemList |-> backend.itemList]

\* the namespace configuration as get_namespace_config returns it, for a
\* namespace whose effective inferenceItemMetadata is metadata
NamespaceView(metadata) ==
    [kind |-> "value", k |-> [NoKeys EXCEPT !["inferenceItemMetadata"] = metadata]]

\* post_decorate_items(namespace, response): the decorator that decorated
\* the response (None if none did), the registry afterwards, the exception.
\* A ClientError leaving DynamoDbResponseDecorator._decorate meets the clause
\* `except ...client.exceptions.LimitExceedException`, a name the client
\* does not have, and becomes an AttributeError.
post_decorate_items(try_decorate_items, metadata, decs, store) ==
    LET s == get_instance(Stores(NoBackground, decs, 0, [x \in NsNames |-> 0]),
                          NamespaceView(metadata), "ns1")
        decorator == IF metadata = None \/ s.err # None THEN None
                     ELSE s.decorators["ns1"]
    IN  IF ~try_decorate_items
        THEN [decorator |-> None, decorators |-> decs, err |-> NoError]
        ELSE [decorator |-> decorator,
              decorators |-> s.decorators,
              err |-> IF s.err # None
                      THEN PersonalizationError("Configuration", 500, s.err, s.err)
                      ELSE IF decorator = "dynamodb" /\ store.kind = "ClientError"
                      THEN Unhandled("AttributeError")
                      ELSE NoError]

\* response['itemList'][:num_results] when the list is longer
truncate(itemList, num_results) ==
    IF Len(itemList) > num_results THEN SubSeq(itemList, 1, num_results)
    ELSE itemList

NotDecorated == [decorator |-> None, decorators |-> [n \in NsNames |-> None],
                 err |-> NoError]

(* The handler after evaluate_variations, for a request ?numResults=         *)
(* num_results&decorateItems=..., a recommender with post_process_config, a  *)
(* variation of the given type whose inferenceItemMetadata is its own or,    *)
(* without one, the namespace's (inherit_config), the registry decs, and     *)
(* what the backend, the metadata store and the post-processor answer.       *)
get_items(endpoint, num_results, post_process_config, type, namespace_metadata, own_metadata, try_decorate_items, decs, backend, store, function) ==
    LET metadata_config == IF own_metadata # None THEN own_metadata
                           ELSE namespace_metadata
        n == inference_num_results(num_results, post_process_config, type)
        call == IF type \in PersonalizeTypes
                THEN get_recommendations(metadata_config, n, try_decorate_items, backend)
                ELSE IF type = "http" THEN urlopen(backend)
                ELSE invoke(n, backend)
        decorated == IF call.err # NoError \/ type = "http" THEN NotDecorated
                     ELSE post_decorate_items(try_decorate_items, namespace_metadata,
                                              decs, store)
        resolved == call.err = NoError /\ decorated.err = NoError
        processed == IF resolved /\ post_process_config.set
                     THEN [err |-> IF function.kind = "ClientError"
                                   THEN Unhandled("ClientError") ELSE NoError,
                           itemList |-> function.itemList]
                     ELSE [err |-> NoError, itemList |-> call.itemList]
        err == IF call.err # NoError THEN call.err
               ELSE IF decorated.err # NoError THEN decorated.err
               ELSE processed.err
    IN  [called |-> TRUE,
         endpoint |-> endpoint,
         numResults |-> num_results,
         responsePostProcessor |-> post_process_config,
         type |-> type,
         inferenceItemMetadata |-> metadata_config,
         namespaceMetadata |-> namespace_metadata,
         decorateItems |-> try_decorate_items,
         backend |-> backend,
         resolver |-> [called |-> call.called, numResults |-> call.numResults,
                       metadataColumns |-> call.metadataColumns],
         throttled |-> call.throttled,
         decorator |-> decorated.decorator,
         processed |-> processed.itemList,
         itemList |-> IF err = NoError THEN truncate(processed.itemList, num_results)
                      ELSE <<>>,
         response |-> lambda_handler(err)]

\* one request is handled; the inputs of the run: one set per argument of
\* get_items
GetItems(I) ==
    /\ inference = NoInference
    /\ \E endpoint \in I.endpoints, num_results \in I.numResults,
          post_process_config \in I.postProcessors, type \in I.types,
          namespace_metadata \in I.namespaceMetadata,
          own_metadata \in I.variationMetadata,
          try_decorate_items \in I.decorateItems, registered \in I.registered,
          backend \in I.backends, store \in I.stores, function \in I.functions :
        /\ registered => namespace_metadata \in {"localdb", "dynamodb"}
        /\ inference' = get_items(endpoint, num_results, post_process_config, type,
                            namespace_metadata, own_metadata, try_decorate_items,
                            [n \in NsNames |-> IF registered /\ n = "ns1"
                                               THEN namespace_metadata ELSE None],
                            backend, store, function)
    /\ UNCHANGED <<etag, verdict, headers, decoration, fanout, autoValues, localdb>>
    /\ UNCHANGED cfgVars
    /\ UNCHANGED hVars

MaxNumResults == 2

LargeNumResults == 300

MaxItems == 3

LargeMaximum == 700

ItemIds == <<"A", "B", "C", "D", "E">>

\* item lists in two orders, of every length up to MaxItems
ItemLists ==
    {SubSeq(ItemIds, 1, n) : n \in 0..MaxItems}
        \cup {[i \in 1..n |-> ItemIds[MaxItems + 1 - i]] : n \in 1..MaxItems}

LookAheadInputs ==
    [endpoints |-> {"get_recommend_items", "get_related_items"},
     numResults |-> (0..MaxNumResults) \cup {LargeNumResults},
     postProcessors |-> {NoPostProcessor}
        \cup {PostProcessor(m, M) : m \in {0, 2, 3}, M \in {0, MaxItems, LargeMaximum}},
     types |-> VariationTypes,
     namespaceMetadata |-> {None},
     variationMetadata |-> {None},
     decorateItems |-> {TRUE},
     registered |-> {FALSE},
     backends |-> {Returned(l) : l \in ItemLists},
     stores |-> {Returned(<<>>)},
     functions |-> {Returned(l) : l \in ItemLists} \cup {ClientError("ServiceException")}]

MetadataInputs ==
    [endpoints |-> {"get_recommend_items", "get_related_items"},
     numResults |-> {MaxNumResults},
     postProcessors |-> {NoPostProcessor},
     types |-> VariationTypes,
     namespaceMetadata |-> {None, "localdb", "dynamodb", "personalize"},
     variationMetadata |-> {None, "localdb", "personalize"},
     decorateItems |-> BOOLEAN,
     registered |-> BOOLEAN,
     backends |-> {Returned(SubSeq(ItemIds, 1, MaxItems)),
                   ClientError("ThrottlingException"),
                   ClientError("ResourceNotFoundException")},
     stores |-> {Returned(<<>>), ClientError("ProvisionedThroughputExceededException")},
     functions |-> {Returned(<<>>)}]

SpecLookAhead == CfgInit({NoNamespacesDoc}) /\ [][GetItems(LookAheadInputs)]_vars

SpecMetadata == CfgInit({NoNamespacesDoc}) /\ [][GetItems(MetadataInputs)]_vars

\* the request of the last run reached a resolver that takes num_results
ResolverCalled == inference.called /\ inference.resolver.called

C19_ManagedMetadataNotDecoratedLocally ==
    inference.called =>
        /\ (/\ inference.decorateItems
            /\ inference.inferenceItemMetadata = "personalize"
            /\ inference.type \in PersonalizeTypes
            /\ inference.backend.kind = "ok")
                => /\ inference.resolver.metadataColumns
                   /\ inference.decorator = None
                   /\ inference.response.statusCode = 200
        /\ inference.decorator # None => ~inference.resolver.metadataColumns

\* C20: a ThrottlingException of Personalize adds one to the throttle metric
\* and is answered 429, any other ClientError of Personalize 500 with the
\* metric untouched; both bodies carry type Personalize, Personalize's error
\* code and its message; no other request is answered 429.
C20_ThrottlingIs429 ==
    inference.called =>
        LET failed == /\ inference.type \in PersonalizeTypes
                      /\ inference.backend.kind = "ClientError"
            throttling == failed /\ inference.backend.code = "ThrottlingException"
        IN  /\ failed =>
                /\ inference.response.type = "Personalize"
                /\ inference.response.code = inference.backend.code
                /\ inference.response.message = inference.backend.message
                /\ inference.response.statusCode = (IF throttling THEN 429 ELSE 500)
                /\ inference.throttled = (IF throttling THEN 1 ELSE 0)
            /\ inference.response.statusCode = 429 => throttling
            /\ inference.throttled = 1 => throttling

\* a throttled related-items request was answered 429
C20_Witness ==
    /\ inference.called
    /\ inference.endpoint = "get_related_items"
    /\ inference.type = "personalize-recommender"
    /\ inference.backend = ClientError("ThrottlingException")
    /\ inference.throttled = 1
    /\ inference.response = [statusCode |-> 429, type |-> "Personalize",
                             code |-> "ThrottlingException",
                             message |-> "Rate exceeded"]

-----------------------------------------------------------------------------
(* LocalDbResponseDecorator.decorate and DynamoDbResponseDecorator.decorate *)
(* on a response whose items are [itemId, metadata]; metadata None is an *)
(* item without the key.  An item id is a number.  A store holds for an id  *)
(* nothing ("absent"), the empty object ("empty") or an object ("meta").    *)

MAX_BATCH_SIZE == 50

max_tries == 3

ResponseItem(id) == [itemId |-> id, metadata |-> None]

\* list(lookup.keys()): the ids of the items in order of first occurrence
unique_items(items) ==
    LET firsts == {i \in 1..Len(items) :
                      \A j \in 1..(i - 1) : items[j].itemId # items[i].itemId}
    IN  [k \in 1..Cardinality(firsts) |->
            items[CHOOSE i \in firsts :
                    Cardinality({j \in firsts : j <= i}) = k].itemId]

lookup_first(items, id) ==
    {i \in 1..Len(items) :
        /\ items[i].itemId = id
        /\ \A j \in 1..(i - 1) : items[j].itemId # id}

\* lookup[id]: the positions of the items that hold the id
lookup(items, id) == {i \in 1..Len(items) : items[i].itemId = id}

\* response[items_key_name][idx]['metadata'] = item for idx in lookup[id],
\* for every id of found, value giving the item of an id
set_metadata(items, found, value) ==
    [i \in 1..Len(items) |->
        IF items[i].itemId \in found /\ i \in lookup(items, items[i].itemId)
        THEN [items[i] EXCEPT !.metadata = value[items[i].itemId]]
        ELSE items[i]]

\* what the store holds for an id; ids outside the table's domain have an
\* object
StoredAt(stored, id) == IF id \in DOMAIN stored THEN stored[id] ELSE "meta"

Elements(seq) == {seq[i] : i \in 1..Len(seq)}

\* LocalDbResponseDecorator.decorate: one dbm_file.get(id) per unique id,
\* `if item:` skips an id without a value and an id whose value is empty
decorate_localdb(items, file, stored) ==
    LET unique == unique_items(items)
        found == {id \in Elements(unique) : StoredAt(stored, id) = "meta"}
    IN  IF ~file
        THEN [response |-> items, requests |-> <<>>, unprocessed |-> {},
              err |-> NoError]
        ELSE [response |-> set_metadata(items, found,
                              [id \in found |-> StoredAt(stored, id)]),
              requests |-> [i \in 1..Len(unique) |-> <<unique[i]>>],
              unprocessed |-> {},
              err |-> NoError]

\* the keys batch_get_item leaves in UnprocessedKeys
Unprocessed(b, keys) ==
    IF b = "none" THEN keys
    ELSE IF b = "first" /\ keys # <<>> THEN SubSeq(keys, 1, 1)
    ELSE IF b = "last" /\ keys # <<>> THEN SubSeq(keys, Len(keys), Len(keys))
    ELSE <<>>

backoff_constant(sleep_millis) == sleep_millis

\* sleep_millis = min(sleep_millis * 2, 1500)
backoff(sleep_millis) == min(sleep_millis * 2, 1500)

\* DynamoDbResponseDecorator._batch_get from the given try on: the table
\* answers the tries as B says; requests are the keys of each batch read,
\* answers the UnprocessedKeys of each, sleeps the milliseconds slept
RECURSIVE batch_get(_, _, _, _, _)
batch_get(keys, stored, B, tries, sleep_millis) ==
    IF tries >= max_tries
    THEN [retrieved |-> {}, requests |-> <<>>, answers |-> <<>>, sleeps |-> <<>>,
          unprocessed |-> Elements(keys), err |-> NoError]
    ELSE IF B[tries + 1] = "ClientError"
    THEN [retrieved |-> {}, requests |-> <<keys>>, answers |-> <<>>,
          sleeps |-> <<>>, unprocessed |-> {},
          err |-> Unhandled("AttributeError")]
    ELSE LET un == Unprocessed(B[tries + 1], keys)
             got == {id \in Elements(keys) \ Elements(un) :
                        StoredAt(stored, id) # "absent"}
             rest == IF un = <<>>
                     THEN [retrieved |-> {}, requests |-> <<>>, answers |-> <<>>,
                           sleeps |-> <<>>, unprocessed |-> {}, err |-> NoError]
                     ELSE batch_get(un, stored, B, tries + 1, backoff(sleep_millis))
         IN  [retrieved |-> got \cup rest.retrieved,
              requests |-> <<keys>> \o rest.requests,
              answers |-> <<un>> \o rest.answers,
              sleeps |-> IF un # <<>> /\ tries + 1 < max_tries
                         THEN <<sleep_millis>> \o rest.sleeps ELSE rest.sleeps,
              unprocessed |-> rest.unprocessed,
              err |-> rest.err]

\* math.ceil(a / b) for positive b
ceil(a, b) == (a + b - 1) \div b

\* the chunks of unique_items: one when there are at most MAX_BATCH_SIZE,
\* else chunks of int(ceil(n / ceil(n / MAX_BATCH_SIZE)))
item_chunks(unique) ==
    LET n == Len(unique)
        chunk_size == ceil(n, ceil(n, MAX_BATCH_SIZE))
    IN  IF n <= MAX_BATCH_SIZE THEN <<unique>>
        ELSE [c \in 1..ceil(n, chunk_size) |->
                SubSeq(unique, (c - 1) * chunk_size + 1, min(c * chunk_size, n))]

\* DynamoDbResponseDecorator.decorate: every chunk is fetched by _batch_get
\* and the items retrieved are merged into the response; an exception of a
\* chunk leaves decorate once the pool has finished
decorate_dynamodb(items, stored, B) ==
    LET chunks == item_chunks(unique_items(items))
        got == [c \in 1..Len(chunks) |-> batch_get(chunks[c], stored, B, 0, 250)]
        failed == {c \in 1..Len(chunks) : got[c].err # NoError}
        found == UNION {got[c].retrieved : c \in 1..Len(chunks)}
        All[c \in 0..Len(chunks)] ==
            IF c = 0 THEN <<>> ELSE All[c - 1] \o got[c].requests
    IN  [response |-> IF failed # {} /\ Len(chunks) = 1 THEN items
                      ELSE set_metadata(items, found,
                               [id \in found |-> StoredAt(stored, id)]),
         requests |-> All[Len(chunks)],
         unprocessed |-> UNION {got[c].unprocessed : c \in 1..Len(chunks)},
         err |-> IF failed = {} THEN NoError
                 ELSE got[CHOOSE c \in failed : TRUE].err]

MaxItemId == 2

MaxListLen == 3

\* one more unique id than a batch takes, the first id twice
LongList == [i \in 1..(MAX_BATCH_SIZE + 2) |->
                ResponseItem(IF i = MAX_BATCH_SIZE + 2 THEN 1 ELSE i)]

\* the responses of up to MaxListLen items (the first item, if any, being
\* item 1) and the long one
Responses ==
    {r \in UNION {[1..n -> {ResponseItem(id) : id \in 1..MaxItemId}] :
                     n \in 0..MaxListLen} : r # <<>> => r[1].itemId = 1}
        \cup {LongList}

Tables == [1..MaxItemId -> {"absent", "empty", "meta"}]

\* what the table does at each try; a try is the last one when it leaves
\* no key unprocessed or fails
TableAnswers ==
    {B \in [1..max_tries -> {"all", "none", "first", "ClientError"}] :
        \A t \in 1..(max_tries - 1) :
            B[t] \in {"all", "ClientError"} => B[t + 1] = "all"}

\* decorator.decorate(items) on one of the two decorators
Decorate ==
    /\ decoration = NoDecoration
    /\ \E items \in Responses, stored \in Tables :
        \/ \E file \in BOOLEAN :
            LET d == decorate_localdb(items, file, stored)
            IN  decoration' = [called |-> TRUE, type |-> "localdb", file |-> file,
                               stored |-> stored, input |-> items,
                               response |-> d.response, requests |-> d.requests,
                               unprocessed |-> d.unprocessed, err |-> d.err]
        \/ \E B \in TableAnswers :
            LET d == decorate_dynamodb(items, stored, B)
            IN  decoration' = [called |-> TRUE, type |-> "dynamodb", file |-> TRUE,
                               stored |-> stored, input |-> items,
                               response |-> d.response, requests |-> d.requests,
                               unprocessed |-> d.unprocessed, err |-> d.err]
    /\ UNCHANGED <<etag, verdict, headers, inference, fanout, autoValues, localdb>>
    /\ UNCHANGED cfgVars
    /\ UNCHANGED hVars

SpecDecorate == CfgInit({NoNamespacesDoc}) /\ [][Decorate]_vars

\* the batches of keys and the answers of the table for _batch_get alone
BatchKeys ==
    {k \in UNION {[1..n -> 1..MaxItemId] : n \in 1..MaxItemId} :
        \A i, j \in 1..Len(k) : i # j => k[i] # k[j]}

BatchAnswers ==
    {B \in [1..max_tries -> {"all", "none", "first", "last"}] :
        \A t \in 1..(max_tries - 1) : B[t] = "all" => B[t + 1] = "all"}

\* self._batch_get(dynamodb, batch_keys)
BatchGet ==
    /\ decoration = NoDecoration
    /\ \E keys \in BatchKeys, stored \in Tables, B \in BatchAnswers :
        LET d == batch_get(keys, stored, B, 0, 250)
        IN  decoration' = [called |-> TRUE, type |-> "_batch_get", keys |-> keys,
                           stored |-> stored, retrieved |-> d.retrieved,
                           requests |-> d.requests, answers |-> d.answers,
                           sleeps |-> d.sleeps, unprocessed |-> d.unprocessed,
                           err |-> d.err]
    /\ UNCHANGED <<etag, verdict, headers, inference, fanout, autoValues, localdb>>
    /\ UNCHANGED cfgVars
    /\ UNCHANGED hVars

SpecBatchGet == CfgInit({NoNamespacesDoc}) /\ [][BatchGet]_vars

\* the number of store requests that carry the id
Lookups(id) ==
    Cardinality({r \in 1..Len(decoration.requests) :
                    \E k \in 1..Len(decoration.requests[r]) :
                        decoration.requests[r][k] = id})

InputIds == {decoration.input[i].itemId : i \in 1..Len(decoration.input)}

SameItems ==
    /\ Len(decoration.response) = Len(decoration.input)
    /\ \A i \in 1..Len(decoration.input) :
        decoration.response[i].itemId = decoration.input[i].itemId

\* the store holds metadata for the id
HasMetadata(id) ==
    decoration.file /\ StoredAt(decoration.stored, id) # "absent"

\* C16 (as claimed): decorate() leaves number, order and itemId of the items
\* as they were, every position whose id has stored metadata receives it,
\* and no id is looked up more than once.
C16_DecoratePreservesAndLooksUpOnce ==
    (decoration.called /\ decoration.err = NoError) =>
        /\ SameItems
        /\ \A i \in 1..Len(decoration.input) :
            HasMetadata(decoration.input[i].itemId) =>
                decoration.response[i].metadata =
                    StoredAt(decoration.stored, decoration.input[i].itemId)
        /\ \A id \in InputIds : Lookups(id) <= 1

\* C16 (amended): decorate() leaves number, order and itemId as they were;
\* a position receives metadata exactly when the store returned an item for
\* its id (localdb: the file is open and the value is not empty; dynamodb:
\* the table holds the id and the key was not left unprocessed after the
\* third try), so duplicates are decorated alike; localdb looks every id up
\* once, dynamodb once per try and at most max_tries times.
C16_DecoratePreservesAndRetries ==
    decoration.called =>
        /\ SameItems
        /\ decoration.err = NoError =>
            /\ \A i \in 1..Len(decoration.input) :
                LET id == decoration.input[i].itemId
                    value == StoredAt(decoration.stored, id)
                    returned ==
                        IF decoration.type = "localdb"
                        THEN decoration.file /\ value = "meta"
                        ELSE value # "absent" /\ id \notin decoration.unprocessed
                IN  decoration.response[i].metadata =
                        (IF returned THEN value ELSE None)
            /\ \A id \in InputIds :
                IF decoration.type = "localdb"
                THEN Lookups(id) = (IF decoration.file THEN 1 ELSE 0)
                ELSE /\ Lookups(id) \in 1..max_tries
                     /\ id \in decoration.unprocessed => Lookups(id) = max_tries

\* the response [A, A, B] was decorated from a table that holds A and B,
\* with one request for the two keys
C16_Witness ==
    /\ decoration.called
    /\ decoration.type = "dynamodb"
    /\ decoration.err = NoError
    /\ decoration.input = <<ResponseItem(1), ResponseItem(1), ResponseItem(2)>>
    /\ decoration.requests = << <<1, 2>> >>
    /\ \A i \in 1..3 : decoration.response[i].metadata = "meta"

-----------------------------------------------------------------------------
(* post_put_events and process_targets: the targets of the namespace are    *)
(* built from eventTargets; one target is called in the handler's thread,   *)
(* any other number is submitted to a ThreadPoolExecutor, waited for, and   *)
(* asked for its result.                                                    *)

PERSONALIZE_EVENT_TRACKER == "personalize-event-tracker"

KINESIS_STREAM == "kinesis-stream"

KINESIS_FIREHOSE == "kinesis-firehose"

TargetTypes == {PERSONALIZE_EVENT_TRACKER, KINESIS_STREAM, KINESIS_FIREHOSE}

MaxTargets == 3

\* namespace_config.get('eventTargets'): up to MaxTargets supported targets
EventTargets == UNION {[1..n -> TargetTypes] : n \in 0..MaxTargets}

\* the event body as far as the targets go: whether it has an eventList and
\* experimentConversions, whether sentAt was stamped and trackingId written
EventBody(eventList, experimentConversions) ==
    [eventList |-> eventList, experimentConversions |-> experimentConversions,
     sentAt |-> eventList, trackingId |-> FALSE]

NoBody == EventBody(FALSE, FALSE)

\* a target, and the body it handed to its service
EventTarget(type) ==
    [type |-> type, state |-> "new", err |-> NoError, delivered |-> NoBody]

\* PersonalizeEventTracker.put_events up to the service call: the body is
\* copied only to delete experimentConversions; trackingId is written into
\* the copy if there is one, else into the dict all targets share
tracker_body(event_body) ==
    IF event_body.experimentConversions
    THEN event_body
    ELSE [event_body EXCEPT !.trackingId = TRUE]

\* the body a target passes to its service when the shared dict is event_body
delivered_body(type, event_body) ==
    IF type = PERSONALIZE_EVENT_TRACKER
    THEN [event_body EXCEPT !.trackingId = TRUE, !.experimentConversions = FALSE]
    ELSE event_body

\* the loop that builds targets: an event tracker is left out when the body
\* has no eventList
RECURSIVE build_targets(_, _)
build_targets(config_targets, eventList) ==
    IF config_targets = <<>> THEN <<>>
    ELSE IF Head(config_targets) = PERSONALIZE_EVENT_TRACKER /\ ~eventList
    THEN build_targets(Tail(config_targets), eventList)
    ELSE <<EventTarget(Head(config_targets))>>
            \o build_targets(Tail(config_targets), eventList)

\* what the put_events of a target of the type may raise: the event tracker
\* wraps a ClientError in PersonalizeError.from_client_error, the Kinesis
\* targets let it through
put_events_errors(type) ==
    IF type = PERSONALIZE_EVENT_TRACKER
    THEN {from_client_error(ClientError("ThrottlingException")),
          from_client_error(ClientError("InvalidInputException"))}
    ELSE {Unhandled("ClientError")}

finished_always(target) == TRUE

\* Future.done()
finished(target) == target.state \in {"done", "raised"}

\* concurrent.futures.wait(futures) returns when all futures are done
wait(futures) == \A i \in 1..Len(futures) : finished(futures[i])

\* for future in futures: future.result(): the exception of the first
\* future that raised, each result being waited for
results(futures) ==
    LET raised == {i \in 1..Len(futures) : futures[i].state = "raised"}
        first == CHOOSE i \in raised : \A j \in raised : i <= j
    IN  IF raised = {} THEN NoError ELSE futures[first].err

\* process_conversions has not been called
NoConversions == [called |-> FALSE]

\* the request arrives; process_targets builds the targets and, unless
\* there is exactly one, submits them all
PostEvents ==
    /\ fanout = NoFanout
    /\ \E config_targets \in EventTargets, eventList \in BOOLEAN,
          experimentConversions \in BOOLEAN :
        LET targets == build_targets(config_targets, eventList)
        IN  fanout' =
                [pc |-> IF config_targets = <<>> THEN "raised"
                        ELSE IF Len(targets) = 1 THEN "sync" ELSE "wait",
                 eventTargets |-> config_targets,
                 eventList |-> eventList,
                 body |-> EventBody(eventList, experimentConversions),
                 targets |-> IF Len(targets) = 1 THEN targets
                             ELSE [i \in 1..Len(targets) |->
                                      [targets[i] EXCEPT !.state = "queued"]],
                 exc |-> IF config_targets = <<>>
                         THEN PersonalizationError("Configuration", 404,
                                  "NamespaceEventTargetsNotFound",
                                  "NamespaceEventTargetsNotFound")
                         ELSE NoError,
                 conversions |-> NoConversions,
                 response |-> OkResponse]
    /\ UNCHANGED <<etag, verdict, headers, inference, decoration, autoValues, localdb>>
    /\ UNCHANGED cfgVars
    /\ UNCHANGED hVars

\* targets[0].put_events(...) in the handler's thread
SyncPut ==
    /\ fanout.pc = "sync"
    /\ LET type == fanout.targets[1].type
           event_body == IF type = PERSONALIZE_EVENT_TRACKER
                         THEN tracker_body(fanout.body) ELSE fanout.body
       IN  \/ fanout' = [fanout EXCEPT
                    !.pc = "returning",
                    !.body = event_body,
                    !.targets[1].state = "done",
                    !.targets[1].delivered = delivered_body(type, event_body)]
           \/ \E e \in put_events_errors(type) :
                fanout' = [fanout EXCEPT !.pc = "raised", !.exc = e,
                                         !.body = event_body,
                                         !.targets[1].state = "raised",
                                         !.targets[1].err = e]
    /\ UNCHANGED <<etag, verdict, headers, inference, decoration, autoValues, localdb>>
    /\ UNCHANGED cfgVars
    /\ UNCHANGED hVars

\* a pool thread starts the put_events of a submitted target and runs it up
\* to its service call
StartTarget ==
    /\ fanout.pc \in {"wait", "results", "raised", "returning", "returned"}
    /\ \E i \in 1..Len(fanout.targets) :
        /\ fanout.targets[i].state = "queued"
        /\ fanout' = [fanout EXCEPT
                !.targets[i].state = "running",
                !.body = IF fanout.targets[i].type = PERSONALIZE_EVENT_TRACKER
                         THEN tracker_body(@) ELSE @]
    /\ UNCHANGED <<etag, verdict, headers, inference, decoration, autoValues, localdb>>
    /\ UNCHANGED cfgVars
    /\ UNCHANGED hVars

\* the put_events of a target returns or raises in its pool thread
FinishTarget ==
    /\ fanout.pc \in {"wait", "results", "raised", "returning", "returned"}
    /\ \E i \in 1..Len(fanout.targets) :
        /\ fanout.targets[i].state = "running"
        /\ \/ fanout' = [fanout EXCEPT
                    !.targets[i].state = "done",
                    !.targets[i].delivered =
                        delivered_body(fanout.targets[i].type, fanout.body)]
           \/ \E e \in put_events_errors(fanout.targets[i].type) :
                fanout' = [fanout EXCEPT !.targets[i].state = "raised",
                                         !.targets[i].err = e]
    /\ UNCHANGED <<etag, verdict, headers, inference, decoration, autoValues, localdb>>
    /\ UNCHANGED cfgVars
    /\ UNCHANGED hVars

\* wait(futures), then the results; the with block of the executor is left
\* once every future has finished
Join ==
    /\ fanout.pc = "wait"
    /\ wait(fanout.targets)
    /\ fanout' = [fanout EXCEPT
                    !.exc = results(fanout.targets),
                    !.pc = IF results(fanout.targets) = NoError
                           THEN "returning" ELSE "raised"]
    /\ UNCHANGED <<etag, verdict, headers, inference, decoration, autoValues, localdb>>
    /\ UNCHANGED cfgVars
    /\ UNCHANGED hVars

\* ValidationError(error_code, error_message) and
\* ConfigError(status_code, error_code, error_message)
ValidationError(error_code) ==
    PersonalizationError("Validation", 400, error_code, error_code)

ConfigError(status_code, error_code) ==
    PersonalizationError("Configuration", status_code, error_code, error_code)

\* the configuration of the events namespace: rec1 has one Evidently
\* experiment (feature f1) with the one metric m1
ConversionDoc ==
    HandlerDoc([ns1 |-> None, ns2 |-> None,
                experiments |-> {ACTION_RECOMMEND_ITEMS, ACTION_RELATED_ITEMS},
                two |-> {}, metrics |-> <<Metric("m1", "true")>>,
                rerank |-> FALSE])

Conversion(recommender, feature, metric) ==
    [recommender |-> recommender, feature |-> feature, metric |-> metric]

\* the first pass of process_conversions over one conversion: the exception
\* it raises, or the event appended for the experiment's project
validate_conversion(conversion) ==
    LET r == get_recommender_config(ConversionDoc, "ns1", conversion.recommender,
                                    NoAction)
        experiment == RecommenderAt(r).experiments
        metrics == {experiment.metrics[k].name : k \in 1..Len(experiment.metrics)}
        raise(e) == [err |-> e, event |-> [project |-> None, metric |-> None]]
    IN  IF conversion.recommender = None
        THEN raise(ValidationError("InvalidExperimentConversions"))
        ELSE IF r.kind = "TypeError" THEN raise(Unhandled("TypeError"))
        ELSE IF r.kind # "value" THEN raise(ValidationError("InvalidRecommender"))
        ELSE IF experiment = NoExperiments
        THEN raise(ConfigError(500, "ExperimentsNotFound"))
        ELSE IF conversion.feature # None /\ conversion.feature # experiment.feature
        THEN raise(ValidationError("InvalidExperimentFeature"))
        ELSE IF experiment.method # "evidently"
        THEN raise(ConfigError(500, "UnsupportedEvaluationMethod"))
        ELSE IF conversion.metric # None /\ conversion.metric \notin metrics
        THEN raise(ValidationError("InvalidExperimentMetric"))
        ELSE IF conversion.metric = None /\ Len(experiment.metrics) # 1
        THEN raise(ValidationError("InvalidExperimentMetric"))
        ELSE [err |-> NoError,
              event |-> [project |-> "p1",
                         metric |-> IF conversion.metric = None
                                    THEN experiment.metrics[1].name
                                    ELSE conversion.metric]]

\* process_conversions(namespace, namespace_config, api_event, config) for
\* the body: the exception raised and the events sent to Evidently
process_conversions(body) ==
    LET list == body.experimentConversions.list
        v == [i \in 1..Len(list) |-> validate_conversion(list[i])]
        bad == {i \in 1..Len(list) : v[i].err # NoError}
        answer(e, sent) == [called |-> TRUE, body |-> body, err |-> e, sent |-> sent]
    IN  IF \/ body.experimentConversions.kind = "None"
           \/ (body.experimentConversions.kind = "list" /\ list = <<>>)
        THEN answer(NoError, <<>>)
        ELSE IF body.experimentConversions.kind # "list"
        THEN answer(ValidationError("InvalidExperimentConversions"), <<>>)
        ELSE IF body.userId = None
        THEN answer(ValidationError("UserIdRequired"), <<>>)
        ELSE IF bad # {}
        THEN answer(v[CHOOSE i \in bad : \A j \in bad : i <= j].err, <<>>)
        ELSE answer(NoError, [i \in 1..Len(list) |-> v[i].event])

\* the conversions of a body are up to MaxConversions of these
MaxConversions == 2

ConversionBodies ==
    LET conversions == {Conversion("rec1", None, None), Conversion("rec9", None, None),
                        Conversion(None, None, None), Conversion("rec1", "f9", None)}
    IN  {[experimentConversions |-> [kind |-> k, list |-> <<>>], userId |-> "u1"] :
            k \in {"None", "dict"}}
        \cup {[experimentConversions |-> [kind |-> "list", list |-> l], userId |-> u] :
                l \in UNION {[1..n -> conversions] : n \in 0..MaxConversions},
                u \in {None, "u1"}}

\* process_targets has returned: process_conversions, then Response(OK); or
\* the exception of either reaches lambda_handler
AnswerEvents ==
    /\ fanout.pc \in {"returning", "raised"}
    /\ \E body \in {b \in ConversionBodies :
                        fanout.body.experimentConversions =
                            (b.experimentConversions.kind = "dict"
                             \/ b.experimentConversions.list # <<>>)} :
        LET conversions == IF fanout.pc = "raised" THEN NoConversions
                           ELSE process_conversions(body)
            e == IF fanout.pc = "raised" THEN fanout.exc ELSE conversions.err
        IN  fanout' = [fanout EXCEPT !.pc = "returned",
                                     !.exc = e,
                                     !.conversions = conversions,
                                     !.response = lambda_handler(e)]
    /\ UNCHANGED <<etag, verdict, headers, inference, decoration, autoValues, localdb>>
    /\ UNCHANGED cfgVars
    /\ UNCHANGED hVars

FanoutNext ==
    \/ PostEvents
    \/ SyncPut
    \/ StartTarget
    \/ FinishTarget
    \/ Join
    \/ AnswerEvents

SpecFanout == CfgInit({NoNamespacesDoc}) /\ [][FanoutNext]_vars

\* C17: when the events request has been answered, the put_events call of
\* every target has been started and has ended, whatever the others did,
\* and if one of them raised the answer is an error response, not 200.
C17_AllTargetsRunBeforeReturn ==
    fanout.pc = "returned" =>
        /\ \A i \in 1..Len(fanout.targets) :
            fanout.targets[i].state \in {"done", "raised"}
        /\ (\E i \in 1..Len(fanout.targets) : fanout.targets[i].state = "raised")
            => fanout.response.statusCode \in {429, 500}

\* two targets, the second failed, the first completed, the answer is 500
C17_Witness ==
    /\ fanout.pc = "returned"
    /\ Len(fanout.targets) = 2
    /\ fanout.targets[1].state = "done"
    /\ fanout.targets[2].state = "raised"
    /\ fanout.response.statusCode = 500

\* the conversion names rec1, which has one experiment with one metric, and
\* no feature or metric that is not configured
ValidConversion(conversion) ==
    /\ conversion.recommender = "rec1"
    /\ conversion.feature \in {None, "f1"}
    /\ conversion.metric \in {None, "m1"}

\* C27: when process_conversions has raised, no conversion event of the
\* request was sent to the evaluator; when the body has a user id and every
\* conversion of experimentConversions is valid, it does not raise and one
\* event per conversion was sent to the project of its experiment.
C27_ConversionsValidatedThenSent ==
    (fanout.pc = "returned" /\ fanout.conversions.called) =>
        LET c == fanout.conversions
            list == c.body.experimentConversions.list
        IN  /\ c.err # NoError => c.sent = <<>>
            /\ (/\ list # <<>>
                /\ c.body.userId # None
                /\ \A i \in 1..Len(list) : ValidConversion(list[i])) =>
                    /\ c.err = NoError
                    /\ Len(c.sent) = Len(list)
                    /\ \A i \in 1..Len(list) : c.sent[i].project = "p1"

\* C29: a POST /events request that is answered with a validation error of
\* its experimentConversions has delivered nothing to any event target.
C29_NothingDeliveredOnConversionError ==
    (/\ fanout.pc = "returned"
     /\ fanout.conversions.called
     /\ fanout.conversions.err.type = "Validation") =>
        \A i \in 1..Len(fanout.targets) : fanout.targets[i].state # "done"

\* C28: with several targets, the body that a Kinesis stream or Firehose
\* target has delivered is the request body as process_targets stamped it,
\* without the trackingId of an event tracker target, and the event tracker
\* has written its trackingId into no body but its own copy.
C28_TargetsDoNotShareChanges ==
    (fanout.pc = "returned" /\ Len(fanout.targets) > 1) =>
        /\ ~fanout.body.trackingId
        /\ \A i \in 1..Len(fanout.targets) :
            (/\ fanout.targets[i].type \in {KINESIS_STREAM, KINESIS_FIREHOSE}
             /\ fanout.targets[i].state = "done") =>
                fanout.targets[i].delivered =
                    EventBody(fanout.eventList, fanout.body.experimentConversions)

-----------------------------------------------------------------------------
(* auto_values.py: the season of a date and the auto-context rules *)

\* the model's latitudes are the whole degrees -MaxLatitude..MaxLatitude
MaxLatitude == 2

\* a latitude argument: None, or a number of degrees
NoLatitude == [known |-> FALSE, degrees |-> 0]

Latitude(degrees) == [known |-> TRUE, degrees |-> degrees]

get_season_inclusive(month, day, latitude) ==
    LET md == month * 100 + day
        s == IF md >= 320 /\ md < 621 THEN 0
             ELSE IF md > 620 /\ md < 923 THEN 1
             ELSE IF md > 922 /\ md < 1223 THEN 2
             ELSE 3
    IN  IF latitude.known /\ latitude.degrees # 0 /\ latitude.degrees < 0
        THEN IF s < 2 THEN s + 2 ELSE s - 2
        ELSE s

\* get_season(date, latitude) for a number or None as latitude: `latitude and
\* latitude < 0` is false for None and for 0
get_season(month, day, latitude) ==
    LET md == month * 100 + day
        s == IF md > 320 /\ md < 621 THEN 0
             ELSE IF md > 620 /\ md < 923 THEN 1
             ELSE IF md > 922 /\ md < 1223 THEN 2
             ELSE 3
    IN  IF latitude.known /\ latitude.degrees # 0 /\ latitude.degrees < 0
        THEN IF s < 2 THEN s + 2 ELSE s - 2
        ELSE s

\* the days of a month of a leap year
DaysIn(month) ==
    IF month = 2 THEN 29 ELSE IF month \in {4, 6, 9, 11} THEN 30 ELSE 31

Latitudes == {NoLatitude} \cup {Latitude(d) : d \in (0 - MaxLatitude)..MaxLatitude}

GetSeason ==
    /\ autoValues = NoAutoValues
    /\ \E month \in 1..12, latitude \in Latitudes :
        \E day \in 1..DaysIn(month) :
            autoValues' = [op |-> "get_season", month |-> month, day |-> day,
                           latitude |-> latitude,
                           season |-> get_season(month, day, latitude)]
    /\ UNCHANGED <<etag, verdict, headers, inference, decoration, fanout, localdb>>
    /\ UNCHANGED cfgVars
    /\ UNCHANGED hVars

SpecSeason == CfgInit({NoNamespacesDoc}) /\ [][GetSeason]_vars

\* the date (month, day) is the date (m, d) or a later date of the year
OnOrAfter(month, day, m, d) == month > m \/ (month = m /\ day >= d)

\* C21: get_season returns 0 from 03-21 to 06-20, 1 from 06-21 to 09-22, 2
\* from 09-23 to 12-22 and 3 on the other days when the latitude is unknown
\* or not negative, and that value plus two modulo four when the latitude is
\* negative; the result is always one of 0, 1, 2, 3.
C21_SeasonIndex ==
    autoValues.op = "get_season" =>
        LET month == autoValues.month
            day == autoValues.day
            northern == IF ~OnOrAfter(month, day, 3, 21) THEN 3
                        ELSE IF ~OnOrAfter(month, day, 6, 21) THEN 0
                        ELSE IF ~OnOrAfter(month, day, 9, 23) THEN 1
                        ELSE IF ~OnOrAfter(month, day, 12, 23) THEN 2
                        ELSE 3
        IN  /\ autoValues.season \in 0..3
            /\ autoValues.season =
                 IF autoValues.latitude.known /\ autoValues.latitude.degrees < 0
                 THEN (northern + 2) % 4
                 ELSE northern

\* the first day of spring in the north is a day of fall in the south
C21_Witness ==
    /\ autoValues.op = "get_season"
    /\ autoValues.month = 3
    /\ autoValues.day = 21
    /\ autoValues.latitude = Latitude(0 - 1)
    /\ autoValues.season = 2

-----------------------------------------------------------------------------
(* auto_values.py: resolve_auto_values and _resolve *)

\* a Python value of the rules: None, a str (its characters) or an int
NoneValue == [t |-> "None", i |-> 0, s |-> <<>>]

Str(s) == [t |-> "str", i |-> 0, s |-> s]

Num(i) == [t |-> "int", i |-> i, s |-> <<>>]

\* bool(v): None, 0 and '' are false
bool(v) == (v.t = "int" /\ v.i # 0) \/ (v.t = "str" /\ v.s # <<>>)

\* the characters of the model in the order of their code points
Alphabet == <<"-", "0", "1", "2", "3", "4", "5", "6", "7", "8", "9", "M", "T",
              "e", "r", "t", "u">>

ord(c) == CHOOSE k \in 1..Len(Alphabet) : Alphabet[k] = c

\* str(v) of a str or of an int 0..99
str(v) ==
    IF v.t = "str" THEN v.s
    ELSE IF v.i < 10 THEN <<Alphabet[v.i + 2]>>
    ELSE <<Alphabet[(v.i \div 10) + 2], Alphabet[(v.i % 10) + 2]>>

\* sub in s, s.startswith(sub), s.endswith(sub)
contains(sub, s) ==
    \E k \in 0..(Len(s) - Len(sub)) : SubSeq(s, k + 1, k + Len(sub)) = sub

startswith(s, sub) == Len(sub) <= Len(s) /\ SubSeq(s, 1, Len(sub)) = sub

endswith(s, sub) ==
    Len(sub) <= Len(s) /\ SubSeq(s, Len(s) - Len(sub) + 1, Len(s)) = sub

\* a < b for two ints or two strs (a TypeError for an int and a str)
less(a, b) ==
    IF a.t = "int" THEN a.i < b.i
    ELSE \E k \in 1..(Len(b.s)) :
            /\ \A j \in 1..(k - 1) : j <= Len(a.s) /\ a.s[j] = b.s[j]
            /\ (k > Len(a.s) \/ (k - 1 < Len(a.s) /\ ord(a.s[k]) < ord(b.s[k])))

ValueMapping(operator, value, mapTo) ==
    [operator |-> operator, value |-> value, mapTo |-> mapTo]

\* the comparison of one value mapping raises TypeError
Raises(m, value) ==
    m.operator \in {"less-than", "greater-than"} /\ value.t # m.value.t

\* the condition of the if/elif chain that belongs to the mapping's operator
Matches(m, value) ==
    \/ m.operator = "equals" /\ value = m.value
    \/ m.operator = "less-than" /\ less(value, m.value)
    \/ m.operator = "greater-than" /\ less(m.value, value)
    \/ m.operator = "contains" /\ contains(str(m.value), str(value))
    \/ m.operator = "start-with" /\ startswith(str(value), str(m.value))
    \/ m.operator = "ends-with" /\ endswith(str(value), str(m.value))

\* the least and the greatest element of a set of numbers, d if it is empty
First(S, d) == IF S = {} THEN d ELSE CHOOSE x \in S : \A y \in S : x <= y

Last(S, d) == IF S = {} THEN d ELSE CHOOSE x \in S : \A y \in S : x >= y

\* the result of the loop over the value mappings vm: it ends at the mapping
\* `ends` with an exception or a true mapTo; if it runs to its end (ends = 0)
\* the mapTo of the last mapping that matched is left, if any (matched # 0)
mapping_loop(vm, value, ends, matched) ==
    IF ends # 0
    THEN IF Raises(vm[ends], value)
         THEN [err |-> "TypeError", value |-> NoneValue]
         ELSE [err |-> None, value |-> vm[ends].mapTo]
    ELSE IF matched # 0
    THEN [err |-> None, value |-> vm[matched].mapTo]
    ELSE [err |-> None, value |-> NoneValue]

\* _resolve(rule, value): [err, value]
_resolve(rule, value) ==
    IF value = NoneValue THEN [err |-> None, value |-> NoneValue]
    ELSE IF rule.valueMappings = <<>> THEN [err |-> None, value |-> value]
    ELSE mapping_loop(rule.valueMappings, value,
            First({k \in 1..Len(rule.valueMappings) :
                     \/ Raises(rule.valueMappings[k], value)
                     \/ /\ Matches(rule.valueMappings[k], value)
                        /\ bool(rule.valueMappings[k].mapTo)}, 0),
            Last({k \in 1..Len(rule.valueMappings) :
                     /\ ~Raises(rule.valueMappings[k], value)
                     /\ Matches(rule.valueMappings[k], value)}, 0))

Rule(type, header, valueMappings) ==
    [type |-> type, header |-> header, valueMappings |-> valueMappings]

\* the value a rule of a known type passes to _resolve
RuleInput(rule, h, t) ==
    IF rule.type = "header-value" THEN h[rule.header]
    ELSE IF rule.type = "hour-of-day" THEN Num(t.hour)
    ELSE IF rule.type = "day-of-week" THEN Num(t.weekday)
    ELSE IF rule.type = "season-of-year"
    THEN Num(get_season(t.month, t.day, NoLatitude))
    ELSE NoneValue

\* the value a rule resolves to under the headers h and the clock t
ResolveRule(rule, h, t) ==
    \* get_season(now, headers.get('cloudfront-viewer-latitude')): the header
    \* is a str, and `latitude < 0` of a non-empty str raises
    IF rule.type = "season-of-year" /\ bool(h["cloudfront-viewer-latitude"])
    THEN [err |-> "TypeError", value |-> NoneValue]
    ELSE _resolve(rule, RuleInput(rule, h, t))

\* the rule loop of one field when its rules resolve to o and it ends after
\* rule `last`: the values resolved, the set of values and the exception
rule_loop_until(o, last) ==
    [resolved |-> [k \in 1..last |-> o[k].value],
     values |-> IF last > 0 /\ o[last].err # None THEN {}
                ELSE {o[k].value : k \in {x \in 1..last : bool(o[x].value)}},
     err |-> IF last > 0 THEN o[last].err ELSE None]

\* the loop ends at the first rule that raises or, unless evaluateAll, that
\* resolves to a true value
rule_loop(auto_ctx, o) ==
    rule_loop_until(o,
        First({k \in 1..Len(auto_ctx.rules) :
                 \/ o[k].err # None
                 \/ bool(o[k].value) /\ ~auto_ctx.evaluateAll},
              Len(auto_ctx.rules)))

\* the rule loop of one field: the rules evaluated, what they resolved to,
\* the set of values and the exception that ended the loop
ResolveField(auto_ctx, h, t) ==
    rule_loop(auto_ctx,
              [k \in 1..Len(auto_ctx.rules) |-> ResolveRule(auto_ctx.rules[k], h, t)])

\* line 90 assigns to resolved['values'], resolved being the value of the
\* last rule evaluated so far (None, a str or an int) or not yet bound
apply_default(bound) == IF bound THEN "TypeError" ELSE "UnboundLocalError"

AutoContext(field, type, default, evaluateAll, rules) ==
    [field |-> field, type |-> type, default |-> default,
     evaluateAll |-> evaluateAll, rules |-> rules]

\* the exception each field ends with, the fields resolving to f
field_errors(context_config, f) ==
    [j \in 1..Len(context_config) |->
        IF f[j].err # None THEN f[j].err
        ELSE IF f[j].values = {} /\ bool(context_config[j].default)
        THEN apply_default(\E i \in 1..j : Len(f[i].resolved) > 0)
        ELSE None]

\* the call when the loop over the fields ends at the field `failed` with
\* err[failed] (failed = 0: it ends normally)
field_loop_until(context_config, h, t, f, err, failed) ==
    [op |-> "resolve_auto_values",
     context_config |-> context_config, headers |-> h, now |-> t,
     rules |-> [j \in 1..(IF failed = 0 THEN Len(context_config) ELSE failed) |->
                  f[j].resolved],
     err |-> IF failed = 0 THEN None ELSE err[failed],
     resolved_values |->
        IF failed # 0 THEN {}
        ELSE {[field |-> context_config[j].field, values |-> f[j].values,
               type |-> context_config[j].type] :
                 j \in {x \in 1..Len(context_config) : f[x].values # {}}}]

field_loop(context_config, h, t, f, err) ==
    field_loop_until(context_config, h, t, f, err,
                     First({j \in 1..Len(context_config) : err[j] # None}, 0))

\* resolve_auto_values(context_config, headers) at the time t: the fields of
\* context_config in dict order
resolve_auto_values(context_config, h, t) ==
    field_loop(context_config, h, t,
               [j \in 1..Len(context_config) |-> ResolveField(context_config[j], h, t)],
               field_errors(context_config,
                   [j \in 1..Len(context_config) |->
                       ResolveField(context_config[j], h, t)]))

\* the request headers of the model: absent, empty or set
Headers ==
    {[x \in {"h1", "h2", "cloudfront-viewer-latitude"} |->
        IF x = "h1" THEN a ELSE IF x = "h2" THEN b ELSE l] :
        a \in {NoneValue, Str(<<>>), Str(<<"M", "T">>)},
        b \in {NoneValue, Str(<<"t", "r", "u", "e">>)},
        l \in {NoneValue, Str(<<"-", "3", "8">>)}}

\* a Monday in spring at midnight, a Thursday in fall at 13 h
Clocks == {[hour |-> 0, weekday |-> 0, month |-> 4, day |-> 1],
           [hour |-> 13, weekday |-> 3, month |-> 10, day |-> 1]}

RuleSet ==
    {Rule("header-value", "h1", <<>>),
     Rule("header-value", "h1",
          <<ValueMapping("start-with", Str(<<"M">>), Str(<<"M">>)),
            ValueMapping("ends-with", Str(<<"T">>), Str(<<"T">>))>>),
     Rule("header-value", "h2",
          <<ValueMapping("equals", Str(<<"t", "r", "u", "e">>), Str(<<"T">>)),
            ValueMapping("contains", Str(<<"r", "u">>), Str(<<"M">>))>>),
     Rule("hour-of-day", None,
          <<ValueMapping("less-than", Num(12), Str(<<"M">>)),
            ValueMapping("greater-than", Num(11), Str(<<"T">>))>>),
     Rule("day-of-week", None, <<>>),
     Rule("season-of-year", None, <<>>)}

\* the rule lists: no rule, one rule, or MaxRules of them
MaxRules == 2

RuleLists == UNION {[1..n -> RuleSet] : n \in 0..MaxRules}

\* an autoContext document of one field, or of that field after a field
\* whose only rule reads the header h1
ContextConfigs ==
    LET fields == {AutoContext("f", type, default, evaluateAll, rules) :
                     type \in {None, "string"},
                     default \in {NoneValue, Str(<<"e">>)},
                     evaluateAll \in BOOLEAN, rules \in RuleLists}
        first == AutoContext("g", None, NoneValue, FALSE,
                             <<Rule("header-value", "h1", <<>>)>>)
    IN  {<<x>> : x \in fields}
        \cup {<<first, x>> : x \in {y \in fields : Len(y.rules) = 0}}

ResolveAutoValues ==
    /\ autoValues = NoAutoValues
    /\ \E context_config \in ContextConfigs, h \in Headers, t \in Clocks :
        autoValues' = resolve_auto_values(context_config, h, t)
    /\ UNCHANGED <<etag, verdict, headers, inference, decoration, fanout, localdb>>
    /\ UNCHANGED cfgVars
    /\ UNCHANGED hVars

SpecAutoValues == CfgInit({NoNamespacesDoc}) /\ [][ResolveAutoValues]_vars

\* a value that is not None and not the empty string
NonEmpty(v) == v.t = "int" \/ (v.t = "str" /\ v.s # <<>>)

\* the field of the last call that was resolved last, its rules as evaluated
LastField == autoValues.context_config[Len(autoValues.rules)]

LastRules == autoValues.rules[Len(autoValues.rules)]

\* the values returned for a field, the empty set if the field is missing
ValuesOf(field) ==
    UNION {x.values : x \in {y \in autoValues.resolved_values : y.field = field}}

\* C22: when resolve_auto_values has returned, the rules of a field were
\* evaluated in list order; with evaluateAll false or unset the evaluation
\* stopped at the first rule that resolved to a non-empty value and the
\* field has exactly that value, with evaluateAll true every rule was
\* evaluated and the field's values are the non-empty values the rules
\* resolved to.
C22_RulesInOrder ==
    (autoValues.op = "resolve_auto_values" /\ autoValues.err = None) =>
        \A j \in 1..Len(autoValues.context_config) :
            LET auto_ctx == autoValues.context_config[j]
                resolved == autoValues.rules[j]
                found == {k \in 1..Len(resolved) : NonEmpty(resolved[k])}
            IN  /\ ValuesOf(auto_ctx.field) = {resolved[k] : k \in found}
                /\ IF auto_ctx.evaluateAll
                   THEN Len(resolved) = Len(auto_ctx.rules)
                   ELSE /\ found \subseteq {Len(resolved)}
                        /\ found = {} => Len(resolved) = Len(auto_ctx.rules)

\* C23: when no rule of a field resolved to a value and the field has a
\* default, resolve_auto_values returns the field with the default as its
\* only value and the configured type, and does not raise.
C23_DefaultApplied ==
    (/\ autoValues.op = "resolve_auto_values"
     /\ Len(autoValues.rules) > 0
     /\ \A k \in 1..Len(LastRules) : ~NonEmpty(LastRules[k])
     /\ Len(LastRules) = Len(LastField.rules)
     /\ bool(LastField.default)) =>
        /\ autoValues.err = None
        /\ [field |-> LastField.field, values |-> {LastField.default},
            type |-> LastField.type] \in autoValues.resolved_values

-----------------------------------------------------------------------------
(* response_decorator.py: a request decorating with the local file of a     *)
(* namespace while the download task of the same request replaces the file  *)

MaxDownloads == 2       \* download tasks that get to write the file
NumIds == 2             \* unique item ids of the response being decorated

\* LocalDbResponseDecorator(namespace): dbm.open(local_file, 'r') if the
\* file exists
LocalDbResponseDecorator(file) ==
    [dbm_file |-> IF file.exists THEN "open" ELSE "None"]

\* what a dbm read finds, of the file as it is at that moment or of a
\* handle that was closed
Read(file, dbm_file) ==
    [version |-> file.version, complete |-> file.complete,
     closed |-> dbm_file = "closed"]

Rest == <<etag, verdict, headers, inference, decoration, fanout, autoValues>>

\* prepare_datastores at the start of a request submits _download_localdb to
\* the request's BackgroundTasks when the sync interval has passed
PrepareLocalDb ==
    /\ localdb.handler.pc = "idle"
    /\ \/ /\ localdb.downloads < MaxDownloads
          /\ localdb' = [localdb EXCEPT !.handler.pc = "get_instance",
                                        !.reads = <<>>,
                                        !.downloads = @ + 1,
                                        !.download.pc = "get_object"]
       \/ localdb' = [localdb EXCEPT !.handler.pc = "get_instance",
                                     !.reads = <<>>]
    /\ UNCHANGED <<Rest, cfgVars, hVars>>

\* decorator = ResponseDecorator.get_instance(namespace, config)
GetInstance ==
    /\ localdb.handler.pc = "get_instance"
    /\ IF localdb.registry # 0
       THEN localdb' = [localdb EXCEPT !.handler.pc = "decorate",
                                       !.handler.decorator = localdb.registry]
       ELSE LET decorator == LocalDbResponseDecorator(localdb.file)
                id == Len(localdb.instances) + 1
            IN  localdb' = [localdb EXCEPT
                    !.instances = Append(@, decorator),
                    !.registry = id,
                    !.handler.pc = "decorate",
                    !.handler.decorator = id,
                    !.reads = IF localdb.file.exists
                              THEN Append(@, Read(localdb.file, "open")) ELSE @]
    /\ UNCHANGED <<Rest, cfgVars, hVars>>

\* decorate(): open the file if the instance has none and the file exists;
\* without a file there is nothing to look up
DecorateLocalDb ==
    /\ localdb.handler.pc = "decorate"
    /\ LET id == localdb.handler.decorator
           dbm_file == localdb.instances[id].dbm_file
       IN  IF dbm_file = "None" /\ localdb.file.exists
           THEN localdb' = [localdb EXCEPT
                    !.instances[id].dbm_file = "open",
                    !.reads = Append(@, Read(localdb.file, "open")),
                    !.handler.pc = "get_item",
                    !.handler.left = NumIds]
           ELSE IF dbm_file = "None"
           THEN localdb' = [localdb EXCEPT !.handler.pc = "exit"]
           ELSE localdb' = [localdb EXCEPT !.handler.pc = "get_item",
                                           !.handler.left = NumIds]
    /\ UNCHANGED <<Rest, cfgVars, hVars>>

\* s = self.dbm_file.get(id) for the next unique id; a closed handle raises
GetItem ==
    /\ localdb.handler.pc = "get_item"
    /\ LET dbm_file == localdb.instances[localdb.handler.decorator].dbm_file
       IN  localdb' = [localdb EXCEPT
                !.reads = Append(@, Read(localdb.file, dbm_file)),
                !.handler.left = @ - 1,
                !.handler.pc = IF dbm_file = "closed" \/ localdb.handler.left = 1
                               THEN "exit" ELSE "get_item"]
    /\ UNCHANGED <<Rest, cfgVars, hVars>>

\* BackgroundTasks.__exit__ waits for the download task, the request ends
ExitLocalDb ==
    /\ localdb.handler.pc = "exit"
    /\ localdb.download.pc = "idle"
    /\ localdb' = [localdb EXCEPT !.handler.pc = "idle", !.handler.decorator = 0]
    /\ UNCHANGED <<Rest, cfgVars, hVars>>

\* s3.get_object: the object, or a ClientError (AccessDenied is logged)
GetObject ==
    /\ localdb.download.pc = "get_object"
    /\ \/ localdb' = [localdb EXCEPT !.download.pc = "open"]
       \/ localdb' = [localdb EXCEPT !.download.pc = "idle"]
    /\ UNCHANGED <<Rest, cfgVars, hVars>>

\* with open(local_file, 'wb') as out: the file is truncated in place
OpenOut ==
    /\ localdb.download.pc = "open"
    /\ localdb' = [localdb EXCEPT
            !.file = [exists |-> TRUE, version |-> @.version + 1,
                      complete |-> FALSE],
            !.download.pc = "copyfileobj"]
    /\ UNCHANGED <<Rest, cfgVars, hVars>>

\* shutil.copyfileobj(stream, out) and the end of the with block
CopyFileObj ==
    /\ localdb.download.pc = "copyfileobj"
    /\ localdb' = [localdb EXCEPT !.file.complete = TRUE,
                                  !.download.pc = "register"]
    /\ UNCHANGED <<Rest, cfgVars, hVars>>

\* old_decorator = _decorators.get(namespace);
\* _decorators[namespace] = LocalDbResponseDecorator(namespace)
Register ==
    /\ localdb.download.pc = "register"
    /\ localdb' = [localdb EXCEPT
            !.instances = Append(@, LocalDbResponseDecorator(localdb.file)),
            !.registry = Len(localdb.instances) + 1,
            !.download.old_decorator = localdb.registry,
            !.download.pc = "close"]
    /\ UNCHANGED <<Rest, cfgVars, hVars>>

\* if old_decorator: old_decorator.close(), which closes dbm_file if there
\* is one and leaves the attribute set
CloseOld ==
    /\ localdb.download.pc = "close"
    /\ LET old == localdb.download.old_decorator
       IN  localdb' = [localdb EXCEPT
                !.instances = IF old # 0 /\ @[old].dbm_file = "open"
                              THEN [@ EXCEPT ![old].dbm_file = "closed"] ELSE @,
                !.download = [pc |-> "idle", old_decorator |-> 0]]
    /\ UNCHANGED <<Rest, cfgVars, hVars>>

LocalDbNext ==
    \/ PrepareLocalDb
    \/ GetInstance
    \/ DecorateLocalDb
    \/ GetItem
    \/ ExitLocalDb
    \/ GetObject
    \/ OpenOut
    \/ CopyFileObj
    \/ Register
    \/ CloseOld

SpecLocalDb == CfgInit({NoNamespacesDoc}) /\ [][LocalDbNext]_vars

\* C24: every read that a decorate() call makes of the local file finds a
\* complete store, the old or the new one, through a handle that is open,
\* whatever the download task of the request is doing.
C24_ReaderSeesCompleteStore ==
    \A k \in 1..Len(localdb.reads) :
        /\ localdb.reads[k].complete
        /\ ~localdb.reads[k].closed

\* the new instance is in the registry when the prior one is closed
RegisteredBeforeClosed ==
    localdb.download.pc = "close" =>
        /\ localdb.registry = Len(localdb.instances)
        /\ localdb.registry # localdb.download.old_decorator

-----------------------------------------------------------------------------
(* Claims on prepare_datastores *)

\* C25: a prepare_datastores call made no more than PREPARE_CHECK_FREQUENCY
\* seconds after the end of the previous run changes neither the registry of
\* decorators nor the download times nor the time of the last run and
\* submits no background task; so the work runs only after that time.
C25_PrepareThrottled ==
    [][(/\ pc = "prepare"
        /\ pc' # pc
        /\ time_time - lastPrepareCheck <= PREPARE_CHECK_FREQUENCY) =>
            /\ decorators' = decorators
            /\ lastDownload' = lastDownload
            /\ lastPrepareCheck' = lastPrepareCheck
            /\ background' = background]_vars

\* a request that arrived TickSeconds after a run has called
\* prepare_datastores, which did nothing
C25_Witness ==
    /\ pc \in {"evaluate", "call"}
    /\ did.prepared
    /\ ~did.registered
    /\ lastPrepareCheck > 0
    /\ time_time - lastPrepareCheck = TickSeconds

-----------------------------------------------------------------------------
(* Claims on _batch_get *)

\* C26: _batch_get makes at most three batch reads, the first for the keys
\* given and each further one for the keys the read before reported as
\* unprocessed; it sleeps 250 ms after a first and 500 ms after a second
\* incomplete read, never more than 1500 ms; it returns the items of every
\* key that some read processed and the table holds, and leaves out the keys
\* still unprocessed after the third read, without raising.
C26_BatchGetBounded ==
    (decoration.called /\ decoration.type = "_batch_get") =>
        LET n == Len(decoration.requests)
            requests == decoration.requests
            answers == decoration.answers
        IN  /\ n \in 1..3
            /\ Len(answers) = n
            /\ requests[1] = decoration.keys
            /\ \A r \in 1..(n - 1) :
                answers[r] # <<>> /\ requests[r + 1] = answers[r]
            /\ n < 3 => answers[n] = <<>>
            /\ decoration.sleeps = SubSeq(<<250, 500>>, 1, n - 1)
            /\ \A k \in 1..Len(decoration.sleeps) : decoration.sleeps[k] <= 1500
            /\ decoration.retrieved =
                 {id \in 1..MaxItemId :
                    /\ decoration.stored[id] # "absent"
                    /\ \E r \in 1..n :
                        /\ \E k \in 1..Len(requests[r]) : requests[r][k] = id
                        /\ \A k \in 1..Len(answers[r]) : answers[r][k] # id}
            /\ decoration.unprocessed =
                 {answers[n][k] : k \in 1..Len(answers[n])}
            /\ decoration.retrieved \cap decoration.unprocessed = {}
            /\ decoration.err = NoError

\* three reads: both keys unprocessed, then the first key again, then
\* again, which is left out; the other key was retrieved on the second read
C26_Witness ==
    /\ decoration.called
    /\ decoration.type = "_batch_get"
    /\ decoration.requests = << <<1, 2>>, <<1, 2>>, <<1>> >>
    /\ decoration.sleeps = <<250, 500>>
    /\ decoration.retrieved = {2}
    /\ decoration.unprocessed = {1}

====
